---- MODULE Spec2Model ----
(***************************************************************************)
(* Sovereign-Portfolio-AI: the vector store (backend/vector_store.py), the *)
(* data processor (backend/data_processor.py), the AI engine               *)
(* (backend/ai_engine.py) and the Streamlit session (frontend/app.py).     *)
(*                                                                         *)
(* Numbers.  A Python float is modelled in fixed point: a feature f is the *)
(* integer f * Scale.  The inputs are chosen so that every division of the *)
(* code is exact in that unit.  NaN and infinities are not modelled.       *)
(* A dictionary is a function whose DOMAIN is its key set.                 *)
(***************************************************************************)
EXTENDS Integers, Sequences, FiniteSets, TLC

VARIABLES
    dimension,      \* PortfolioVectorStore.dimension
    index,          \* PortfolioVectorStore.index: the vectors held by IndexFlatIP
    embeddings,     \* PortfolioVectorStore.embeddings
    metadata,       \* PortfolioVectorStore.metadata
    is_trained,     \* PortfolioVectorStore.is_trained
    data,           \* PortfolioDataProcessor.data: sheet name -> rows
    processed_data, \* PortfolioDataProcessor.processed_data
    uploaded_file,  \* the workbook in the file uploader
    api_key,        \* PortfolioAIEngine.api_key
    client,         \* PortfolioAIEngine.client
    chat_history,   \* PortfolioAIEngine.chat_history
    GENAI_AVAILABLE, \* ai_engine.GENAI_AVAILABLE: google.generativeai was imported
    environ,        \* os.environ
    session,        \* st.session_state
    provenance,     \* history: the trigger_ai_analysis run and the summaries that
                    \* session's ai_analysis and ai_recommendations were generated from
    ret             \* the last call: its name, arguments and outcome

storeVars == <<dimension, index, embeddings, metadata, is_trained>>
procVars == <<data, processed_data, uploaded_file>>
engineVars == <<api_key, client, chat_history>>
appVars == <<GENAI_AVAILABLE, environ, session, provenance>>
vars == <<dimension, index, embeddings, metadata, is_trained,
          data, processed_data, uploaded_file,
          api_key, client, chat_history, GENAI_AVAILABLE, environ, session, provenance,
          ret>>

(***************************************************************************)
(* Bounds of the model.                                                    *)
(***************************************************************************)
MaxVectors == 3         \* add_portfolio_data calls explored per store
SmallDimension == 4     \* a store dimension below the number of features
WideDimension == 24     \* a store dimension above the number of features

(***************************************************************************)
(* Values.                                                                 *)
(***************************************************************************)
Scale == 256
DefaultDimension == 384

Num(n) == [isnum |-> TRUE, v |-> n]
Text == [isnum |-> FALSE, v |-> 0]          \* a non-numeric value such as "n/a"
Get(d, k, default) == IF k \in DOMAIN d THEN d[k] ELSE default
EmptyDict == [k \in {} |-> 0]

\* x / den in fixed point
Fixed(n, den) ==
    IF den = 1 THEN n * Scale
    ELSE (n \div den) * Scale + ((n % den) * Scale) \div den

RECURSIVE SumSeq(_)
SumSeq(s) == IF s = <<>> THEN 0 ELSE Head(s) + SumSeq(Tail(s))

Take(s, n) == SubSeq(s, 1, IF n < Len(s) THEN n ELSE Len(s))

\* sorted(values, reverse=True): insertion into a non-increasing sequence
RECURSIVE InsertDesc(_, _)
InsertDesc(x, s) ==
    IF s = <<>> THEN <<x>>
    ELSE IF x > Head(s) THEN <<x>> \o s
    ELSE <<Head(s)>> \o InsertDesc(x, Tail(s))

RECURSIVE SortedDesc(_)
SortedDesc(s) == IF s = <<>> THEN <<>> ELSE InsertDesc(Head(s), SortedDesc(Tail(s)))

\* the values of a dictionary, as a sequence (in key order)
RECURSIVE DictValues(_)
DictValues(d) ==
    IF DOMAIN d = {} THEN <<>>
    ELSE LET k == CHOOSE x \in DOMAIN d : TRUE
         IN <<d[k]>> \o DictValues([j \in DOMAIN d \ {k} |-> d[j]])

(***************************************************************************)
(* PortfolioVectorStore._create_embeddings                                 *)
(***************************************************************************)
\* The cells read by float(...), each with the divisor that normalises it.
PortfolioCells(snapshot) ==
    IF "portfolio_summary" \in DOMAIN snapshot
    THEN LET p == snapshot.portfolio_summary
         IN << <<Get(p, "total_aum", Num(0)), 10^9>>,
               <<Get(p, "target_return", Num(0)), 1>>,
               <<Get(p, "total_holdings", Num(0)), 100>> >>
    ELSE <<>>

PerformanceCells(snapshot) ==
    IF "performance_summary" \in DOMAIN snapshot
    THEN LET p == snapshot.performance_summary
         IN << <<Get(p, "total_return", Num(0)), 1>>,
               <<Get(p, "daily_return", Num(0)), 1>>,
               <<Get(p, "volatility", Num(0)), 1>>,
               <<Get(p, "sharpe_ratio", Num(0)), 1>>,
               <<Get(p, "max_drawdown", Num(0)), 1>>,
               <<Get(p, "active_return", Num(0)), 1>> >>
    ELSE <<>>

RiskCells(snapshot) ==
    IF "risk_summary" \in DOMAIN snapshot
    THEN LET r == snapshot.risk_summary
         IN << <<Get(r, "portfolio_beta", Num(0)), 1>>,
               <<Get(r, "var_95", Num(0)), 10^6>>,
               <<Get(r, "tracking_error", Num(0)), 1>>,
               <<Get(r, "correlation_benchmark", Num(0)), 1>>,
               <<Get(r, "concentration_risk", Num(0)), 1>>,
               <<Get(r, "liquidity_score", Num(0)), 10>> >>
    ELSE <<>>

ScalarCells(snapshot) == PortfolioCells(snapshot) \o PerformanceCells(snapshot) \o RiskCells(snapshot)

\* float(x) raises on a non-numeric value
FloatRaises(snapshot) ==
    LET cells == ScalarCells(snapshot)
    IN \E i \in 1..Len(cells) : ~cells[i][1].isnum

ScalarFeatures(snapshot) ==
    LET cells == ScalarCells(snapshot)
    IN [i \in 1..Len(cells) |-> Fixed(cells[i][1].v, cells[i][2])]

SectorValues(snapshot) == DictValues(snapshot.sector_allocation)

\* sum(...) over a non-numeric weight, or w / total_value with total_value = 0
SectorRaises(snapshot) ==
    /\ "sector_allocation" \in DOMAIN snapshot
    /\ DOMAIN snapshot.sector_allocation # {}
    /\ LET values == SectorValues(snapshot)
       IN \/ \E i \in 1..Len(values) : ~values[i].isnum
          \/ SumSeq([i \in 1..Len(values) |-> values[i].v]) = 0

SectorFeatures(snapshot) ==
    IF "sector_allocation" \notin DOMAIN snapshot THEN <<>>
    ELSE IF DOMAIN snapshot.sector_allocation = {} THEN <<0, 0, 0, 0, 0, 0>>
    ELSE LET values == SectorValues(snapshot)
             w == [i \in 1..Len(values) |-> values[i].v]
             total_value == SumSeq(w)
             sector_weights == Take(SortedDesc(w), 5)
             normalized_weights ==
                 [i \in 1..Len(sector_weights) |-> Fixed(sector_weights[i], total_value)]
             herfindahl ==
                 SumSeq([i \in 1..Len(w) |-> Fixed(w[i] * w[i], total_value * total_value)])
         IN normalized_weights \o <<herfindahl>>

Features(snapshot) == ScalarFeatures(snapshot) \o SectorFeatures(snapshot)

\* while len(features) < self.dimension: features.append(0.0)
Pad(features, dim) ==
    IF Len(features) < dim
    THEN features \o [i \in 1..(dim - Len(features)) |-> 0]
    ELSE features

NoTruncate(features, dim) == features

\* features[:self.dimension]
Truncate(features, dim) == SubSeq(features, 1, IF dim < Len(features) THEN dim ELSE Len(features))

Zeros(dim) == [i \in 1..dim |-> 0]

CreateEmbeddingsRaises(snapshot) == FloatRaises(snapshot) \/ SectorRaises(snapshot)

CreateEmbeddings(snapshot, dim) ==
    IF CreateEmbeddingsRaises(snapshot) THEN Zeros(dim)
    ELSE Truncate(Pad(Features(snapshot), dim), dim)

(***************************************************************************)
(* PortfolioVectorStore._create_data_summary and the metadata record       *)
(***************************************************************************)
\* f"{x:,.0f}", f"{x:.2%}", f"{x:.2f}" raise on a non-numeric value
DataSummaryRaises(snapshot) ==
    \/ /\ "portfolio_summary" \in DOMAIN snapshot
       /\ ~Get(snapshot.portfolio_summary, "total_aum", Num(0)).isnum
    \/ /\ "performance_summary" \in DOMAIN snapshot
       /\ \E k \in {"total_return", "volatility", "sharpe_ratio"} :
              ~Get(snapshot.performance_summary, k, Num(0)).isnum
    \/ /\ "risk_summary" \in DOMAIN snapshot
       /\ \E k \in {"portfolio_beta", "var_95"} :
              ~Get(snapshot.risk_summary, k, Num(0)).isnum

CreateDataSummary(snapshot) ==
    (IF "portfolio_summary" \in DOMAIN snapshot
     THEN LET p == snapshot.portfolio_summary
          IN << <<"Portfolio", Get(p, "fund_name", "Unknown")>>,
                <<"AUM", Get(p, "total_aum", Num(0)).v>>,
                <<"Risk Level", Get(p, "risk_level", "Unknown")>> >>
     ELSE <<>>)
    \o
    (IF "performance_summary" \in DOMAIN snapshot
     THEN LET p == snapshot.performance_summary
          IN << <<"Return", Get(p, "total_return", Num(0)).v>>,
                <<"Volatility", Get(p, "volatility", Num(0)).v>>,
                <<"Sharpe", Get(p, "sharpe_ratio", Num(0)).v>> >>
     ELSE <<>>)
    \o
    (IF "risk_summary" \in DOMAIN snapshot
     THEN LET r == snapshot.risk_summary
          IN << <<"Beta", Get(r, "portfolio_beta", Num(0)).v>>,
                <<"VaR", Get(r, "var_95", Num(0)).v>> >>
     ELSE <<>>)

\* the metadata record of add_portfolio_data, without its wall-clock timestamp
Metadata(snapshot) ==
    [data_summary |-> CreateDataSummary(snapshot),
     portfolio_name |-> Get(Get(snapshot, "portfolio_summary", EmptyDict), "fund_name", "Unknown"),
     total_return |-> Get(Get(snapshot, "performance_summary", EmptyDict), "total_return", Num(0)),
     volatility |-> Get(Get(snapshot, "performance_summary", EmptyDict), "volatility", Num(0)),
     risk_level |-> Get(Get(snapshot, "portfolio_summary", EmptyDict), "risk_level", "Unknown")]

(***************************************************************************)
(* faiss.IndexFlatIP: add appends a vector, search returns the k largest   *)
(* inner products in non-increasing order with the 0-based ids of their    *)
(* vectors (among equal scores, the earlier vector first); when k exceeds  *)
(* the number of vectors the remaining places hold id -1 and the lowest    *)
(* score.                                                                  *)
(***************************************************************************)
MinusInfinity == -(2^30)

\* the sum of a[i] * b[i]: the zero products add nothing
RECURSIVE SumProducts(_, _, _)
SumProducts(a, b, at) ==
    IF at = {} THEN 0
    ELSE LET i == CHOOSE x \in at : TRUE
         IN a[i] * b[i] + SumProducts(a, b, at \ {i})

InnerProduct(a, b) == SumProducts(a, b, {i \in 1..Len(a) : a[i] # 0 /\ b[i] # 0})

\* the best not yet taken vector: the highest score, the lowest id among equals
BestOf(scores, taken) ==
    CHOOSE j \in (1..Len(scores)) \ taken :
        \A m \in (1..Len(scores)) \ taken :
            \/ scores[j] > scores[m]
            \/ scores[j] = scores[m] /\ j <= m

RECURSIVE SearchFrom(_, _, _)
SearchFrom(scores, k, taken) ==
    IF k = 0 THEN <<>>
    ELSE IF taken = 1..Len(scores)
    THEN <<[score |-> MinusInfinity, id |-> -1]>> \o SearchFrom(scores, k - 1, taken)
    ELSE LET j == BestOf(scores, taken)
         IN <<[score |-> scores[j], id |-> j - 1]>>
            \o SearchFrom(scores, k - 1, taken \cup {j})

IndexSearch(idx, q, k) ==
    SearchFrom([j \in 1..Len(idx) |-> InnerProduct(q, idx[j])], k, {})

(***************************************************************************)
(* PortfolioVectorStore.search_similar_portfolios                          *)
(***************************************************************************)
Min(a, b) == IF a < b THEN a ELSE b

\* self.metadata[idx], a negative idx counting from the end
MetadataAt(id) == IF id < 0 THEN metadata[Len(metadata) + id + 1] ELSE metadata[id + 1]

SearchHitsUnclamped(query_data, k) ==
    IndexSearch(index, CreateEmbeddings(query_data, dimension), k)

\* index.search(query, min(k, len(self.embeddings)))
SearchHits(query_data, k) ==
    IndexSearch(index, CreateEmbeddings(query_data, dimension), Min(k, Len(embeddings)))

SearchSimilarPortfolios(query_data, k) ==
    IF ~is_trained \/ Len(embeddings) = 0 THEN <<>>
    ELSE IF k <= 0 THEN <<>>                  \* faiss rejects k <= 0: except -> []
    ELSE LET hits == SearchHits(query_data, k)
             kept == SelectSeq([i \in 1..Len(hits) |->
                                   [similarity_score |-> hits[i].score,
                                    id |-> hits[i].id,
                                    rank |-> i]],
                               LAMBDA r : r.id < Len(metadata))
         IN [i \in 1..Len(kept) |->
                [similarity_score |-> kept[i].similarity_score,
                 metadata |-> MetadataAt(kept[i].id),
                 rank |-> kept[i].rank]]

(***************************************************************************)
(* PortfolioVectorStore.get_context_for_query                              *)
(***************************************************************************)
\* 'word' in query.lower(), for the queries of the model
Contains(query, word) ==
    <<query, word>> \in {<<"What are the key risks in my portfolio?", "risk">>,
                         <<"What is my total return?", "return">>,
                         <<"Which sectors should I consider reducing?", "sector">>}

QueryBranch(query) ==
    IF Contains(query, "risk") THEN "risk"
    ELSE IF Contains(query, "performance") \/ Contains(query, "return") THEN "performance"
    ELSE IF Contains(query, "holding") \/ Contains(query, "sector") THEN "holdings"
    ELSE "none"

HeldTop3(snapshot) == Take(snapshot.top_holdings, 3)

\* a format specification applied to a non-numeric value raises
ContextRaises(query, snapshot) ==
    \/ "portfolio_summary" \in DOMAIN snapshot /\ DataSummaryRaises(snapshot)
    \/ /\ QueryBranch(query) = "risk"
       /\ "risk_summary" \in DOMAIN snapshot
       /\ \E k \in {"portfolio_beta", "var_95", "tracking_error"} :
              ~Get(snapshot.risk_summary, k, Num(0)).isnum
    \/ /\ QueryBranch(query) = "performance"
       /\ "performance_summary" \in DOMAIN snapshot
       /\ \E k \in {"total_return", "volatility", "sharpe_ratio"} :
              ~Get(snapshot.performance_summary, k, Num(0)).isnum
    \/ /\ QueryBranch(query) = "holdings"
       /\ "top_holdings" \in DOMAIN snapshot
       /\ \E i \in 1..Len(HeldTop3(snapshot)) :
              \/ {"Asset_Name", "Weight_Percent"} \ DOMAIN HeldTop3(snapshot)[i] # {}
              \/ ~HeldTop3(snapshot)[i].Weight_Percent.isnum

DefaultContext == << <<"Current portfolio data available for analysis.">> >>

GetContextForQuery(query, snapshot) ==
    IF ContextRaises(query, snapshot) THEN DefaultContext
    ELSE LET similar_portfolios == SearchSimilarPortfolios(snapshot, 2)
         IN (IF "portfolio_summary" \in DOMAIN snapshot
             THEN << <<"CURRENT PORTFOLIO:">>, CreateDataSummary(snapshot) >>
             ELSE <<>>)
            \o
            (IF similar_portfolios # <<>>
             THEN << <<"SIMILAR HISTORICAL PERIODS:">> >>
                  \o [i \in 1..Len(similar_portfolios) |->
                         <<similar_portfolios[i].metadata.data_summary,
                           similar_portfolios[i].similarity_score>>]
             ELSE <<>>)
            \o
            (IF QueryBranch(query) = "risk" /\ "risk_summary" \in DOMAIN snapshot
             THEN << <<"RISK CONTEXT:">>,
                     <<Get(snapshot.risk_summary, "portfolio_beta", Num(0)).v,
                       Get(snapshot.risk_summary, "var_95", Num(0)).v,
                       Get(snapshot.risk_summary, "tracking_error", Num(0)).v>> >>
             ELSE IF QueryBranch(query) = "performance" /\ "performance_summary" \in DOMAIN snapshot
             THEN << <<"PERFORMANCE CONTEXT:">>,
                     <<Get(snapshot.performance_summary, "total_return", Num(0)).v,
                       Get(snapshot.performance_summary, "volatility", Num(0)).v,
                       Get(snapshot.performance_summary, "sharpe_ratio", Num(0)).v>> >>
             ELSE IF QueryBranch(query) = "holdings" /\ "top_holdings" \in DOMAIN snapshot
             THEN << <<"HOLDINGS CONTEXT:">> >>
                  \o [i \in 1..Len(HeldTop3(snapshot)) |->
                         <<HeldTop3(snapshot)[i].Asset_Name, HeldTop3(snapshot)[i].Weight_Percent.v>>]
             ELSE <<>>)

(***************************************************************************)
(* PortfolioVectorStore.get_stats                                          *)
(***************************************************************************)
GetStats ==
    [total_vectors |-> Len(embeddings),
     dimension |-> dimension,
     is_trained |-> is_trained,
     index_size |-> Len(index)]

(***************************************************************************)
(* Inputs of the vector store: dictionaries of summaries.                  *)
(***************************************************************************)
MaxValue == 2           \* the numeric cells take the values 0..MaxValue

PortfolioSummaryOf(v) ==
    [fund_name |-> "Fund", total_aum |-> Num(v * 10^9), target_return |-> Num(v),
     total_holdings |-> Num(100 * v), risk_level |-> "Moderate"]

PerformanceSummaryOf(v) ==
    [total_return |-> Num(v), daily_return |-> Num(1), volatility |-> Num(MaxValue - v),
     sharpe_ratio |-> Num(v), max_drawdown |-> Num(1), active_return |-> Num(v)]

RiskSummaryOf(v) ==
    [portfolio_beta |-> Num(1), var_95 |-> Num(v * 10^6), tracking_error |-> Num(v),
     correlation_benchmark |-> Num(1), concentration_risk |-> Num(v),
     liquidity_score |-> Num(10 * v)]

SectorKinds == {"empty", "one", "even", "skew", "six", "zero", "text"}

SectorAllocationOf(kind) ==
    CASE kind = "empty" -> EmptyDict
      [] kind = "one"   -> [s \in {"Energy"} |-> Num(4)]
      [] kind = "even"  -> [s \in {"Energy", "Banks"} |-> Num(2)]
      [] kind = "skew"  -> [s \in {"Energy", "Banks"} |-> IF s = "Energy" THEN Num(3) ELSE Num(1)]
      [] kind = "six"   -> [s \in {"Energy", "Banks", "IT", "Pharma", "Auto", "FMCG"} |->
                               IF s \in {"Energy", "Banks"} THEN Num(4)
                               ELSE IF s \in {"IT", "Pharma", "Auto"} THEN Num(2) ELSE Num(2)]
      [] kind = "zero"  -> [s \in {"Energy", "Banks"} |-> Num(0)]
      [] kind = "text"  -> [s \in {"Energy", "Banks"} |-> IF s = "Energy" THEN Text ELSE Num(1)]

SummaryKeys == {"portfolio_summary", "performance_summary", "risk_summary", "sector_allocation"}

FullData(v, kind) ==
    [portfolio_summary |-> PortfolioSummaryOf(v),
     performance_summary |-> PerformanceSummaryOf(v),
     risk_summary |-> RiskSummaryOf(v),
     sector_allocation |-> SectorAllocationOf(kind)]

Restrict(d, keys) == [k \in keys |-> d[k]]

\* one non-numeric cell: target_return (read by float only) or total_aum (also formatted)
WithText(d, key) == [d EXCEPT !.portfolio_summary = [@ EXCEPT ![key] = Text]]

\* a portfolio_summary without the keys read by .get(key, 0)
WithoutNumbers(d) ==
    [d EXCEPT !.portfolio_summary = [k \in {"fund_name", "risk_level"} |-> @[k]]]

\* every input of _create_embeddings that the model draws
AllInputs ==
    {Restrict(FullData(v, kind), keys) :
        v \in 0..MaxValue, kind \in SectorKinds, keys \in SUBSET SummaryKeys}
    \cup {WithText(FullData(v, kind), key) :
        v \in 1..MaxValue, kind \in {"one", "six"}, key \in {"target_return", "total_aum"}}
    \cup {WithoutNumbers(FullData(v, "skew")) : v \in 1..MaxValue}

\* the snapshots added to a store and used as queries
Snapshots ==
    {FullData(1, "even"),
     Restrict(FullData(2, "one"), {"performance_summary", "sector_allocation"}),
     WithText(FullData(1, "one"), "target_return"),
     WithText(FullData(1, "one"), "total_aum")}

Queries ==
    {"investment recommendations", "What are the key risks in my portfolio?",
     "What is my total return?", "Which sectors should I consider reducing?"}

\* the snapshots used as queries
QuerySnapshots ==
    {FullData(1, "even"), FullData(2, "skew"), WithText(FullData(1, "one"), "total_aum")}

\* the k passed to search_similar_portfolios: 0, and up to more than a store holds
SearchSizes == 0..(MaxVectors + 1)

\* PortfolioVectorStore(dimension): the dimensions the stores are built with
StoreDimensions == {SmallDimension, WideDimension}
Dimensions == StoreDimensions \cup {DefaultDimension}

(***************************************************************************)
(* The vector store as a state machine.                                    *)
(***************************************************************************)
NoFile == [name |-> "None", size |-> 0, sheets |-> EmptyDict]

\* PortfolioDataProcessor.__init__, and nothing in the uploader
IdleProcessor ==
    /\ data = EmptyDict
    /\ processed_data = EmptyDict
    /\ uploaded_file = NoFile

\* no engine has been constructed
IdleEngine ==
    /\ api_key = "None"
    /\ client = "None"
    /\ chat_history = <<>>

\* no session is open
\* nothing was generated yet
NotGenerated == [run |-> "none", summaries |-> <<>>]
NoProvenance == [ai_analysis |-> NotGenerated, ai_recommendations |-> NotGenerated]

IdleApp ==
    /\ GENAI_AVAILABLE = TRUE
    /\ environ = EmptyDict
    /\ session = EmptyDict
    /\ provenance = NoProvenance

\* PortfolioVectorStore.__init__
InitStore ==
    /\ dimension \in StoreDimensions
    /\ index = <<>>
    /\ embeddings = <<>>
    /\ metadata = <<>>
    /\ is_trained = FALSE
    /\ IdleProcessor
    /\ IdleEngine
    /\ IdleApp
    /\ ret = [op |-> "init"]

AppendedNoDuplicate(list, item) ==
    IF \E i \in 1..Len(list) : list[i] = item THEN list ELSE Append(list, item)

\* list.append(item), index.add(item)
Appended(list, item) == Append(list, item)

\* PortfolioVectorStore.add_portfolio_data
AddPortfolioData(snapshot) ==
    /\ Len(embeddings) < MaxVectors
    /\ IF DataSummaryRaises(snapshot)
       THEN /\ ret' = [op |-> "add", data |-> snapshot, raised |-> TRUE, value |-> -1]
            /\ UNCHANGED <<storeVars, procVars, engineVars, appVars>>
       ELSE /\ index' = Appended(index, CreateEmbeddings(snapshot, dimension))
            /\ embeddings' = Appended(embeddings, CreateEmbeddings(snapshot, dimension))
            /\ metadata' = Appended(metadata, Metadata(snapshot))
            /\ is_trained' = TRUE
            /\ ret' = [op |-> "add", data |-> snapshot, raised |-> FALSE,
                       value |-> Len(embeddings)]
            /\ UNCHANGED <<dimension, procVars, engineVars, appVars>>

CallSearchSimilarPortfolios(query_data, k) ==
    /\ ret' = [op |-> "search", data |-> query_data, k |-> k,
               value |-> SearchSimilarPortfolios(query_data, k)]
    /\ UNCHANGED <<storeVars, procVars, engineVars, appVars>>

CallGetContextForQuery(query, snapshot) ==
    /\ ret' = [op |-> "context", query |-> query, data |-> snapshot,
               value |-> GetContextForQuery(query, snapshot)]
    /\ UNCHANGED <<storeVars, procVars, engineVars, appVars>>

CallGetStats ==
    /\ ret' = [op |-> "stats", value |-> GetStats]
    /\ UNCHANGED <<storeVars, procVars, engineVars, appVars>>

CallCreateEmbeddings(snapshot) ==
    /\ ret' = [op |-> "embed", data |-> snapshot, value |-> CreateEmbeddings(snapshot, dimension)]
    /\ UNCHANGED <<storeVars, procVars, engineVars, appVars>>

NextStore ==
    \/ \E snapshot \in Snapshots : AddPortfolioData(snapshot)
    \/ \E snapshot \in QuerySnapshots, k \in SearchSizes :
           CallSearchSimilarPortfolios(snapshot, k)
    \/ \E query \in Queries, snapshot \in QuerySnapshots :
           CallGetContextForQuery(query, snapshot)
    \/ CallGetStats

SpecStore == InitStore /\ [][NextStore]_vars

NextEmbed == \E snapshot \in AllInputs : CallCreateEmbeddings(snapshot)

InitEmbed ==
    /\ dimension \in Dimensions
    /\ index = <<>>
    /\ embeddings = <<>>
    /\ metadata = <<>>
    /\ is_trained = FALSE
    /\ IdleProcessor
    /\ IdleEngine
    /\ IdleApp
    /\ ret = [op |-> "init"]

SpecEmbed == InitEmbed /\ [][NextEmbed]_vars

(***************************************************************************)
(* Workbooks.  A workbook maps sheet names to rows; a row is a record of   *)
(* its cells.  A Date cell is a day, empty (NaT) or text no date parser    *)
(* accepts.  The numeric columns hold numbers.  Only the columns the       *)
(* summaries read are kept.                                                *)
(***************************************************************************)
TopN == 10

Day(n) == [kind |-> "date", day |-> n]
NaT == [kind |-> "NaT", day |-> 0]
BadDate == [kind |-> "text", day |-> 0]
NoSector == "<NaN>"                 \* an empty Sector cell

\* expected_sheets, in the order of the list
ExpectedSheets ==
    <<"Portfolio_Overview", "Holdings_Detail", "Historical_Performance",
      "Benchmarks", "Risk_Metrics", "Cash_Flows", "Market_Data">>

\* time_series_sheets, in the order of the list
TimeSeriesSheets ==
    <<"Historical_Performance", "Benchmarks", "Risk_Metrics", "Cash_Flows", "Market_Data">>

SeqRange(s) == {s[i] : i \in 1..Len(s)}

(***************************************************************************)
(* PortfolioDataProcessor.load_excel_file: the validation of the sheets    *)
(***************************************************************************)
MissingSheets(sheets) == {i \in 1..Len(ExpectedSheets) : ExpectedSheets[i] \notin DOMAIN sheets}

\* the sheet named by the ValueError: the loop raises at the first one missing
FirstMissingSheet(sheets) ==
    ExpectedSheets[CHOOSE i \in MissingSheets(sheets) : \A j \in MissingSheets(sheets) : i <= j]

AssignedBeforeValidation(sheets, old) == sheets

\* self.data = excel_data is reached only when no sheet is missing
ValidatedData(sheets, old) == IF MissingSheets(sheets) # {} THEN old ELSE sheets

(***************************************************************************)
(* PortfolioDataProcessor._clean_data                                      *)
(***************************************************************************)
\* pd.to_datetime(df['Date']) raises on text that is no date
DateRaises(rows) == \E i \in 1..Len(rows) : rows[i].Date.kind = "text"

\* the order of sort_values('Date'): ascending, the rows without a date last
DateBefore(a, b) ==
    \/ a.kind = "date" /\ b.kind = "NaT"
    \/ a.kind = "date" /\ b.kind = "date" /\ a.day < b.day

\* insertion of a row behind the rows that are not after it (a stable sort)
RECURSIVE InsertByDate(_, _)
InsertByDate(row, rows) ==
    IF rows = <<>> THEN <<row>>
    ELSE IF DateBefore(row.Date, Head(rows).Date) THEN <<row>> \o rows
    ELSE <<Head(rows)>> \o InsertByDate(row, Tail(rows))

RECURSIVE SortByDateFrom(_, _)
SortByDateFrom(rows, i) ==
    IF i = 0 THEN <<>>
    ELSE InsertByDate(rows[i], SortByDateFrom(rows, i - 1))

\* df.sort_values('Date'): on sheets this short numpy's default sort is an insertion
\* sort, which keeps rows of equal Date in their order
SortValuesByDate(rows) == SortByDateFrom(rows, Len(rows))

\* the first time series sheet, in the order of the loop, whose dates do not parse
CleanFailures(sheets) ==
    {i \in 1..Len(TimeSeriesSheets) :
        TimeSeriesSheets[i] \in DOMAIN sheets /\ DateRaises(sheets[TimeSeriesSheets[i]])}

CleanRaises(sheets) == CleanFailures(sheets) # {}

FirstCleanFailure(sheets) ==
    IF CleanRaises(sheets)
    THEN CHOOSE i \in CleanFailures(sheets) : \A j \in CleanFailures(sheets) : i <= j
    ELSE Len(TimeSeriesSheets) + 1

\* self.data when _clean_data returns or raises: the time series sheets before
\* the failing one are sorted, the others are as uploaded
CleanData(sheets) ==
    [name \in DOMAIN sheets |->
        IF \E i \in 1..Len(TimeSeriesSheets) :
              TimeSeriesSheets[i] = name /\ i < FirstCleanFailure(sheets)
        THEN SortValuesByDate(sheets[name])
        ELSE sheets[name]]

(***************************************************************************)
(* PortfolioDataProcessor._calculate_metrics                               *)
(***************************************************************************)
\* self.data['Portfolio_Overview'].iloc[0]
FirstRow(rows) == rows[1]

\* holdings['Market_Value'].sum()
RECURSIVE SumMarketValue(_, _)
SumMarketValue(rows, i) ==
    IF i = 0 THEN 0 ELSE rows[i].Market_Value.v + SumMarketValue(rows, i - 1)

PortfolioSummary(sheets) ==
    LET portfolio == FirstRow(sheets["Portfolio_Overview"])
        holdings == sheets["Holdings_Detail"]
    IN [fund_name |-> portfolio.Fund_Name,
        total_aum |-> portfolio.Total_AUM,
        target_return |-> portfolio.Target_Return,
        risk_level |-> portfolio.Risk_Level,
        total_holdings |-> Num(Len(holdings)),
        total_market_value |-> Num(SumMarketValue(holdings, Len(holdings)))]

\* insertion of a holding behind the holdings that are not smaller (keep='first')
RECURSIVE InsertByValue(_, _)
InsertByValue(row, rows) ==
    IF rows = <<>> THEN <<row>>
    ELSE IF row.Market_Value.v > Head(rows).Market_Value.v THEN <<row>> \o rows
    ELSE <<Head(rows)>> \o InsertByValue(row, Tail(rows))

RECURSIVE SortByValueFrom(_, _)
SortByValueFrom(rows, i) ==
    IF i = 0 THEN <<>> ELSE InsertByValue(rows[i], SortByValueFrom(rows, i - 1))

Head10(rows, n) == Take(rows, n)

\* holdings.nlargest(n, 'Market_Value')
NLargest(rows, n) == Take(SortByValueFrom(rows, Len(rows)), n)

\* [['Asset_Name', ..., 'Market_Value', 'Weight_Percent', 'Sector']].to_dict('records')
TopHoldings(sheets) ==
    LET top == NLargest(sheets["Holdings_Detail"], TopN)
    IN [i \in 1..Len(top) |->
           [Asset_Name |-> top[i].Asset_Name,
            Market_Value |-> top[i].Market_Value,
            Weight_Percent |-> top[i].Weight_Percent,
            Sector |-> top[i].Sector]]

RECURSIVE SumSector(_, _, _)
SumSector(rows, sector, i) ==
    IF i = 0 THEN 0
    ELSE (IF rows[i].Sector = sector THEN rows[i].Market_Value.v ELSE 0)
         + SumSector(rows, sector, i - 1)

GroupKeysWithNaN(rows) == {rows[i].Sector : i \in 1..Len(rows)}

\* the groups of groupby('Sector'): the rows without a Sector are dropped
GroupKeys(rows) == {rows[i].Sector : i \in 1..Len(rows)} \ {NoSector}

\* holdings.groupby('Sector')['Market_Value'].sum() ... .to_dict()
SectorAllocation(sheets) ==
    LET holdings == sheets["Holdings_Detail"]
    IN [sector \in GroupKeys(holdings) |-> Num(SumSector(holdings, sector, Len(holdings)))]

\* perf.iloc[-1]
LastRow(rows) == rows[Len(rows)]

PerformanceSummary(sheets) ==
    LET latest_perf == LastRow(sheets["Historical_Performance"])
    IN [current_value |-> latest_perf.Portfolio_Value,
        total_return |-> latest_perf.Cumulative_Return,
        daily_return |-> latest_perf.Daily_Return,
        volatility |-> latest_perf.Volatility,
        sharpe_ratio |-> latest_perf.Sharpe_Ratio,
        max_drawdown |-> latest_perf.Max_Drawdown,
        active_return |-> latest_perf.Active_Return]

RiskSummary(sheets) ==
    LET latest_risk == LastRow(sheets["Risk_Metrics"])
    IN [portfolio_beta |-> latest_risk.Portfolio_Beta,
        var_95 |-> latest_risk.VaR_95,
        cvar_95 |-> latest_risk.CVaR_95,
        tracking_error |-> latest_risk.Tracking_Error,
        correlation_benchmark |-> latest_risk.Correlation_Benchmark,
        concentration_risk |-> latest_risk.Concentration_Risk,
        liquidity_score |-> latest_risk.Liquidity_Score]

\* the step of _calculate_metrics at which iloc[0] or iloc[-1] raises IndexError
\* on a sheet without rows: 1 the portfolio summary, 4 the performance summary,
\* 5 the risk summary, 6 none
MetricsFailure(sheets) ==
    IF sheets["Portfolio_Overview"] = <<>> THEN 1
    ELSE IF sheets["Historical_Performance"] = <<>> THEN 4
    ELSE IF sheets["Risk_Metrics"] = <<>> THEN 5
    ELSE 6

MetricsRaises(sheets) == MetricsFailure(sheets) < 6

\* processed_data when _calculate_metrics returns or raises: the entries set
\* before the failing step
CalculateMetrics(sheets) ==
    LET done == MetricsFailure(sheets)
        keys == (IF done > 1 THEN {"portfolio_summary"} ELSE {})
                \cup (IF done > 2 THEN {"top_holdings"} ELSE {})
                \cup (IF done > 3 THEN {"sector_allocation"} ELSE {})
                \cup (IF done > 4 THEN {"performance_summary"} ELSE {})
                \cup (IF done > 5 THEN {"risk_summary"} ELSE {})
    IN [k \in keys |->
           CASE k = "portfolio_summary" -> PortfolioSummary(sheets)
             [] k = "top_holdings" -> TopHoldings(sheets)
             [] k = "sector_allocation" -> SectorAllocation(sheets)
             [] k = "performance_summary" -> PerformanceSummary(sheets)
             [] k = "risk_summary" -> RiskSummary(sheets)]

(***************************************************************************)
(* PortfolioDataProcessor.load_excel_file                                  *)
(***************************************************************************)
\* the exception load_excel_file re-raises, "None" when it returns
LoadRaises(sheets) ==
    IF MissingSheets(sheets) # {} THEN "ValueError"
    ELSE IF CleanRaises(sheets) THEN "ParserError"
    ELSE IF MetricsRaises(CleanData(sheets)) THEN "IndexError"
    ELSE "None"

LoadMessage(sheets) ==
    IF MissingSheets(sheets) # {}
    THEN <<"Missing required sheet: ", FirstMissingSheet(sheets)>>
    ELSE <<>>

LoadedData(sheets, old) ==
    IF MissingSheets(sheets) # {} THEN ValidatedData(sheets, old)
    ELSE CleanData(ValidatedData(sheets, old))

LoadedProcessedData(sheets, old) ==
    IF MissingSheets(sheets) # {} \/ CleanRaises(sheets) THEN old
    ELSE CalculateMetrics(CleanData(sheets))

LoadExcelFile ==
    /\ uploaded_file # NoFile
    /\ data' = LoadedData(uploaded_file.sheets, data)
    /\ processed_data' = LoadedProcessedData(uploaded_file.sheets, processed_data)
    /\ ret' = [op |-> "load", file |-> uploaded_file,
               raised |-> LoadRaises(uploaded_file.sheets),
               message |-> LoadMessage(uploaded_file.sheets)]
    /\ UNCHANGED <<uploaded_file, storeVars, engineVars, appVars>>

(***************************************************************************)
(* Inputs of the data processor: workbooks.                                *)
(***************************************************************************)
MaxHoldings == 12       \* rows of Holdings_Detail in the long workbooks
ValueCycle == 5         \* the Market_Value of the long workbooks cycle through 1..ValueCycle
MaxStep == 3            \* the steps of that cycle
MaxSectorRows == 3      \* rows of Holdings_Detail in the workbooks that vary the sectors
MaxRows == 3            \* rows of a time series sheet
MaxDay == 2             \* the days 1..MaxDay

OverviewRow ==
    [Fund_Name |-> "Fund", Total_AUM |-> Num(10^9), Target_Return |-> Num(1),
     Risk_Level |-> "Moderate"]

HoldingRow(name, value, sector) ==
    [Asset_Name |-> name, Market_Value |-> Num(value), Weight_Percent |-> Num(1),
     Sector |-> sector]

PerformanceRow(date, v) ==
    [Date |-> date, Portfolio_Value |-> Num(v), Cumulative_Return |-> Num(v),
     Daily_Return |-> Num(1), Volatility |-> Num(v), Sharpe_Ratio |-> Num(v),
     Max_Drawdown |-> Num(1), Active_Return |-> Num(v)]

RiskRow(date, v) ==
    [Date |-> date, Portfolio_Beta |-> Num(v), VaR_95 |-> Num(v * 10^6), CVaR_95 |-> Num(v),
     Tracking_Error |-> Num(v), Correlation_Benchmark |-> Num(1),
     Concentration_Risk |-> Num(v), Liquidity_Score |-> Num(10 * v)]

SeriesRow(date, v) == [Date |-> date, Value |-> Num(v)]

BaseWorkbook ==
    [name \in SeqRange(ExpectedSheets) |->
        CASE name = "Portfolio_Overview" -> <<OverviewRow>>
          [] name = "Holdings_Detail" ->
                <<HoldingRow(1, 1, "Energy"), HoldingRow(2, 2, "Banks")>>
          [] name = "Historical_Performance" ->
                <<PerformanceRow(Day(1), 1), PerformanceRow(Day(2), 2)>>
          [] name = "Risk_Metrics" -> <<RiskRow(Day(1), 1), RiskRow(Day(2), 2)>>
          [] OTHER -> <<SeriesRow(Day(1), 1)>>]

WithSheet(sheets, name, rows) == [sheets EXCEPT ![name] = rows]

\* every subset of the expected sheets
SheetSubsetWorkbooks ==
    {Restrict(BaseWorkbook, present) : present \in SUBSET SeqRange(ExpectedSheets)}

\* up to MaxHoldings holdings whose values cycle: equal, rising and mixed orders
LongHoldingsWorkbooks ==
    {WithSheet(BaseWorkbook, "Holdings_Detail",
               [i \in 1..n |-> HoldingRow(i, ((step * i + shift) % ValueCycle) + 1, "Energy")]) :
        n \in 0..MaxHoldings, step \in 0..MaxStep, shift \in 0..1}

SectorCells == {"Energy", "Banks", NoSector}

\* a few holdings, every choice of value and sector, empty Sector cells included
SectorWorkbooks ==
    UNION {{WithSheet(BaseWorkbook, "Holdings_Detail",
                      [i \in 1..n |-> HoldingRow(i, c[i][1], c[i][2])]) :
               c \in [1..n -> (1..MaxValue) \X SectorCells]} :
           n \in 0..MaxSectorRows}

DateCells == {Day(d) : d \in 1..MaxDay} \cup {NaT, BadDate}

\* every order of dated, undated and unparseable rows in the two summarised sheets
PerformanceWorkbooks ==
    UNION {{WithSheet(BaseWorkbook, "Historical_Performance",
                      [i \in 1..n |-> PerformanceRow(d[i], i)]) :
               d \in [1..n -> DateCells]} :
           n \in 0..MaxRows}

RiskWorkbooks ==
    UNION {{WithSheet(BaseWorkbook, "Risk_Metrics", [i \in 1..n |-> RiskRow(d[i], i)]) :
               d \in [1..n -> DateCells]} :
           n \in 0..MaxRows}

OtherWorkbooks ==
    {WithSheet(BaseWorkbook, "Portfolio_Overview", <<>>),
     WithSheet(BaseWorkbook, "Benchmarks", <<SeriesRow(BadDate, 1)>>),
     WithSheet(BaseWorkbook, "Market_Data", <<SeriesRow(Day(2), 1), SeriesRow(BadDate, 2)>>)}

Workbooks ==
    SheetSubsetWorkbooks \cup LongHoldingsWorkbooks \cup SectorWorkbooks
    \cup PerformanceWorkbooks \cup RiskWorkbooks \cup OtherWorkbooks

FileOf(sheets) == [name |-> "portfolio.xlsx", size |-> 1, sheets |-> sheets]

\* the files uploaded over a loaded one
ReuploadWorkbooks ==
    {WithSheet(BaseWorkbook, "Historical_Performance", <<PerformanceRow(Day(1), 2)>>),
     Restrict(BaseWorkbook, SeqRange(ExpectedSheets) \ {"Benchmarks", "Market_Data"}),
     WithSheet(BaseWorkbook, "Risk_Metrics", <<RiskRow(BadDate, 1)>>),
     WithSheet(BaseWorkbook, "Risk_Metrics", <<>>)}

(***************************************************************************)
(* The data processor as a state machine: the file in the uploader is      *)
(* loaded, and another file may be put in its place.                       *)
(***************************************************************************)
IdleStore ==
    /\ dimension = DefaultDimension
    /\ index = <<>>
    /\ embeddings = <<>>
    /\ metadata = <<>>
    /\ is_trained = FALSE

InitLoad ==
    /\ IdleStore
    /\ data = EmptyDict
    /\ processed_data = EmptyDict
    /\ uploaded_file \in {FileOf(sheets) : sheets \in Workbooks}
    /\ IdleEngine
    /\ IdleApp
    /\ ret = [op |-> "init"]

SelectFile(file) ==
    /\ ret.op = "load"
    /\ file # uploaded_file
    /\ uploaded_file' = file
    /\ ret' = [op |-> "select"]
    /\ UNCHANGED <<data, processed_data, storeVars, engineVars, appVars>>

NextLoad ==
    \/ LoadExcelFile
    \/ \E sheets \in ReuploadWorkbooks : SelectFile(FileOf(sheets))

SpecLoad == InitLoad /\ [][NextLoad]_vars

(***************************************************************************)
(* PortfolioAIEngine._parse_recommendations.  A text is the sequence of    *)
(* its characters; NL is the line feed.  The function is handed the str    *)
(* returned by _generate_content; on a str no statement of the try block   *)
(* raises, so the except branch (lines 458-470) is never entered.          *)
(***************************************************************************)
MaxRecommendations == 7

NL == "\n"
Whitespace == {" ", "\t", "\r", NL}
Digits == {"0", "1", "2", "3", "4", "5", "6", "7", "8", "9"}
Uppers == <<"A", "B", "C", "D", "E", "F", "G", "H", "I", "J", "K", "L", "M",
            "N", "O", "P", "Q", "R", "S", "T", "U", "V", "W", "X", "Y", "Z">>
Lowers == <<"a", "b", "c", "d", "e", "f", "g", "h", "i", "j", "k", "l", "m",
            "n", "o", "p", "q", "r", "s", "t", "u", "v", "w", "x", "y", "z">>

\* the index of the first c in text, 0 when there is none
Find(text, c) ==
    IF \E i \in 1..Len(text) : text[i] = c
    THEN CHOOSE i \in 1..Len(text) : text[i] = c /\ \A j \in 1..(i - 1) : text[j] # c
    ELSE 0

\* text.split(sep)
RECURSIVE Split(_, _)
Split(text, sep) ==
    IF Find(text, sep) = 0 THEN <<text>>
    ELSE <<SubSeq(text, 1, Find(text, sep) - 1)>>
         \o Split(SubSeq(text, Find(text, sep) + 1, Len(text)), sep)

\* text.strip()
Strip(text) ==
    LET kept == {i \in 1..Len(text) : text[i] \notin Whitespace}
    IN IF kept = {} THEN <<>>
       ELSE SubSeq(text, CHOOSE i \in kept : \A j \in kept : i <= j,
                         CHOOSE i \in kept : \A j \in kept : j <= i)

LowerChar(c) ==
    IF \E i \in 1..Len(Uppers) : Uppers[i] = c
    THEN Lowers[CHOOSE i \in 1..Len(Uppers) : Uppers[i] = c]
    ELSE c

\* text.lower()
Lower(text) == [i \in 1..Len(text) |-> LowerChar(text[i])]

\* word in text
Within(word, text) ==
    \E i \in 0..(Len(text) - Len(word)) : SubSeq(text, i + 1, i + Len(word)) = word

PriorityWord == <<"p", "r", "i", "o", "r", "i", "t", "y">>
HighWord == <<"h", "i", "g", "h">>
LowWord == <<"l", "o", "w">>

\* line[0].isdigit() and '.' in line[:3]
IsNumbered(line) ==
    /\ line[1] \in Digits
    /\ \E i \in 1..Min(3, Len(line)) : line[i] = "."

\* line.split('.', 1)[1].strip()
Title(line) == Strip(SubSeq(line, Find(line, ".") + 1, Len(line)))

NewRecommendation(title) ==
    [title |-> title, description |-> <<>>, priority |-> "Medium", rationale |-> <<>>,
     impact |-> <<>>]

\* a dictionary is true when it has a key
Truthy(dict) == DOMAIN dict # {}

\* the body of the loop over the lines, on the pair (recommendations, current_rec)
ParseLine(state, raw) ==
    LET line == Strip(raw)
        current_rec == state.current_rec
    IN IF line = <<>> THEN state
       ELSE IF IsNumbered(line)
       THEN [recommendations |->
                IF Truthy(current_rec) THEN Append(state.recommendations, current_rec)
                ELSE state.recommendations,
             current_rec |-> NewRecommendation(Title(line))]
       ELSE IF Truthy(current_rec)
       THEN IF Within(PriorityWord, Lower(line))
            THEN IF Within(HighWord, Lower(line))
                 THEN [state EXCEPT !.current_rec.priority = "High"]
                 ELSE IF Within(LowWord, Lower(line))
                 THEN [state EXCEPT !.current_rec.priority = "Low"]
                 ELSE state
            ELSE [state EXCEPT !.current_rec.description = @ \o <<" ">> \o line,
                               !.current_rec.rationale = @ \o <<" ">> \o line]
       ELSE state

RECURSIVE ParseLines(_, _)
ParseLines(lines, i) ==
    IF i = 0 THEN [recommendations |-> <<>>, current_rec |-> EmptyDict]
    ELSE ParseLine(ParseLines(lines, i - 1), lines[i])

\* the clean-up of one record
CleanUp(rec) ==
    LET description == IF Strip(rec.description) = <<>> THEN rec.title
                       ELSE Strip(rec.description)
        rationale == IF Strip(rec.rationale) = <<>> THEN description
                     ELSE Strip(rec.rationale)
    IN [rec EXCEPT !.description = description, !.rationale = rationale]

Unlimited(recommendations) == recommendations

\* recommendations[:7]
Limited(recommendations) == Take(recommendations, MaxRecommendations)

ParseRecommendations(recommendations_text) ==
    LET lines == Split(recommendations_text, NL)
        parsed == ParseLines(lines, Len(lines))
        recommendations ==
            IF Truthy(parsed.current_rec)
            THEN Append(parsed.recommendations, parsed.current_rec)
            ELSE parsed.recommendations
    IN Limited([i \in 1..Len(recommendations) |-> CleanUp(recommendations[i])])


(***************************************************************************)
(* Response texts handed to _parse_recommendations.                        *)
(***************************************************************************)
MaxItems == 9           \* numbered items of the long responses
MaxShortLines == 3      \* lines of the short responses
MaxDetailStep == 2      \* the steps through the detail lines of the long responses

\* "d. t": a numbered item whose number is the digit d and whose title is t
Item(d, t) == <<d, ".", " ">> \o t

DigitOf(i) == <<"0", "1", "2", "3", "4", "5", "6", "7", "8", "9">>[(i % 10) + 1]

PriorityHighLine == <<"P", "r", "i", "o", "r", "i", "t", "y", ":", " ", "H", "i", "g", "h">>
LowPriorityLine == <<"-", " ", "l", "o", "w", " ", "P", "R", "I", "O", "R", "I", "T", "Y">>
PriorityLine == <<"p", "r", "i", "o", "r", "i", "t", "y", "?">>
HighLine == <<"H", "i", "g", "h", " ", "r", "i", "s", "k">>
PaddedLine == <<" ", "\t", "B", "u", "y", " ", "\r">>
BlankLine == <<" ", " ">>

DetailLines == <<<<>>, PriorityHighLine, PaddedLine, LowPriorityLine, HighLine, PriorityLine>>

\* lines that are numbered, lines that only look numbered, and detail lines
ShortLines ==
    {Item("1", <<"A">>), Item("2", <<"B">>), <<" ">> \o Item("3", <<"C">>),
     <<"1", "0", ".", " ", "D">>, <<"1", "0", "0", ".", " ", "E">>,
     <<"4", ")", " ", "F">>, <<"5", ".">>, <<"1", ".", "5", " ", "G">>,
     PriorityHighLine, LowPriorityLine, HighLine, PaddedLine, BlankLine, <<>>}

\* "\n".join(lines)
RECURSIVE Join(_, _)
Join(lines, i) ==
    IF i = 0 THEN <<>>
    ELSE IF i = 1 THEN lines[1]
    ELSE Join(lines, i - 1) \o <<NL>> \o lines[i]

ShortResponses ==
    UNION {{Join(lines, n) : lines \in [1..n -> ShortLines]} : n \in 0..MaxShortLines}

\* n items numbered 1..n with titles A, B, ..., each followed by a detail line
LongResponseLines(n, step, shift) ==
    [k \in 1..(2 * n) |->
        IF k % 2 = 1 THEN Item(DigitOf((k + 1) \div 2), <<Uppers[(k + 1) \div 2]>>)
        ELSE DetailLines[((step * (k \div 2) + shift) % Len(DetailLines)) + 1]]

LongResponses ==
    {Join(LongResponseLines(n, step, shift), 2 * n) :
        n \in 0..MaxItems, step \in 0..MaxDetailStep, shift \in 0..1}

Responses == ShortResponses \cup LongResponses

\* generate_recommendations hands the text returned by _generate_content to
\* _parse_recommendations
CallParseRecommendations ==
    /\ ret.op = "generate_content"
    /\ ret' = [op |-> "parse", text |-> ret.text, result |-> ParseRecommendations(ret.text)]
    /\ UNCHANGED <<storeVars, procVars, engineVars, appVars>>

InitParse ==
    /\ IdleStore
    /\ IdleProcessor
    /\ IdleEngine
    /\ IdleApp
    /\ ret \in {[op |-> "generate_content", text |-> text] : text \in Responses}

NextParse == CallParseRecommendations

SpecParse == InitParse /\ [][NextParse]_vars


(***************************************************************************)
(* PortfolioAIEngine.  The engine's vector_store is the store of the       *)
(* variables dimension .. is_trained; a Gemini call is an input of the     *)
(* action: Returned(text) when it returns a text, ApiError when it raises.  *)
(* None is the string "None".                                              *)
(***************************************************************************)
ApiError == [raises |-> TRUE]
Returned(text) == [raises |-> FALSE, text |-> text]

Put(dict, key, value) ==
    [k \in DOMAIN dict \cup {key} |-> IF k = key THEN value ELSE dict[k]]

\* a or b, on None and strings
Or(a, b) == IF a \notin {"None", ""} THEN a ELSE b

\* os.getenv(name)
Getenv(name) == Get(environ, name, "None")

\* api_key or os.getenv('GEMINI_API_KEY')
ConstructedApiKey(arg) == Or(arg, Getenv("GEMINI_API_KEY"))

KeyCheckedFirst(arg, configure_ok, test_ok) ==
    IF ConstructedApiKey(arg) \in {"None", ""} THEN "ValueError"
    ELSE IF ~GENAI_AVAILABLE THEN "ImportError"
    ELSE IF ~configure_ok \/ ~test_ok THEN "RuntimeError"
    ELSE "None"

\* the exception raised by PortfolioAIEngine(api_key=arg), "None" when it returns;
\* configure_ok: genai.configure and GenerativeModel return; test_ok: the test
\* request returns a text
ConstructorRaises(arg, configure_ok, test_ok) ==
    IF ~GENAI_AVAILABLE THEN "ImportError"
    ELSE IF ConstructedApiKey(arg) \in {"None", ""} THEN "ValueError"
    ELSE IF ~configure_ok \/ ~test_ok THEN "RuntimeError"
    ELSE "None"

\* self.client when the constructor returns or raises
ConstructedClient(arg, configure_ok) ==
    IF GENAI_AVAILABLE /\ ConstructedApiKey(arg) \notin {"None", ""} /\ configure_ok
    THEN "GenerativeModel"
    ELSE "None"

\* the fields set by PortfolioAIEngine.__init__
Constructed(arg, configure_ok) ==
    /\ api_key' = ConstructedApiKey(arg)
    /\ client' = ConstructedClient(arg, configure_ok)
    /\ chat_history' = <<>>
    /\ dimension' = DefaultDimension
    /\ index' = <<>>
    /\ embeddings' = <<>>
    /\ metadata' = <<>>
    /\ is_trained' = FALSE

\* the cells _prepare_portfolio_summary formats as numbers
PreparedCells(snapshot) ==
    (IF "portfolio_summary" \in DOMAIN snapshot
     THEN <<Get(snapshot.portfolio_summary, "total_aum", Num(0)),
            Get(snapshot.portfolio_summary, "target_return", Num(0))>>
     ELSE <<>>)
    \o
    (IF "performance_summary" \in DOMAIN snapshot
     THEN LET perf == snapshot.performance_summary
          IN <<Get(perf, "current_value", Num(0)), Get(perf, "total_return", Num(0)),
               Get(perf, "daily_return", Num(0)), Get(perf, "volatility", Num(0)),
               Get(perf, "sharpe_ratio", Num(0)), Get(perf, "max_drawdown", Num(0)),
               Get(perf, "active_return", Num(0))>>
     ELSE <<>>)
    \o
    (IF "risk_summary" \in DOMAIN snapshot
     THEN LET risk == snapshot.risk_summary
          IN <<Get(risk, "portfolio_beta", Num(0)), Get(risk, "var_95", Num(0)),
               Get(risk, "cvar_95", Num(0)), Get(risk, "tracking_error", Num(0)),
               Get(risk, "correlation_benchmark", Num(0)),
               Get(risk, "concentration_risk", Num(0)),
               Get(risk, "liquidity_score", Num(0))>>
     ELSE <<>>)
    \o
    (IF "sector_allocation" \in DOMAIN snapshot
     THEN DictValues(snapshot.sector_allocation)
     ELSE <<>>)

\* a numeric format, or sum, applied to a non-numeric value raises
PrepareRaises(snapshot) ==
    \E i \in 1..Len(PreparedCells(snapshot)) : ~PreparedCells(snapshot)[i].isnum

\* the sections of the text of _prepare_portfolio_summary, each with the data it
\* prints; the holdings in descending Market_Value.  get_holdings_data has no
\* geographic_allocation, so that section is never printed.
PreparePortfolioSummary(snapshot) ==
    LET has(key) == key \in DOMAIN snapshot
        sections ==
            ({"portfolio_summary", "performance_summary", "risk_summary"} \cap DOMAIN snapshot)
            \cup (IF has("raw_holdings_df") /\ snapshot["raw_holdings_df"] # <<>>
                  THEN {"raw_holdings_df"}
                  ELSE IF has("top_holdings") /\ snapshot["top_holdings"] # <<>>
                  THEN {"top_holdings"}
                  ELSE {})
            \cup (IF has("sector_allocation") /\ Truthy(snapshot["sector_allocation"])
                  THEN {"sector_allocation"}
                  ELSE {})
    IN [key \in sections |->
           IF key = "raw_holdings_df"
           THEN SortByValueFrom(snapshot[key], Len(snapshot[key]))
           ELSE snapshot[key]]

\* the exception raised by analyze_portfolio with this outcome of the Gemini call
AnalysisRaises(snapshot, response) ==
    IF DataSummaryRaises(snapshot) \/ PrepareRaises(snapshot) \/ response.raises
    THEN "RuntimeError"
    ELSE "None"

\* the dictionary analyze_portfolio returns, without its wall-clock timestamp
Analysis(snapshot, response) ==
    [analysis |-> response.text, data_summary |-> PreparePortfolioSummary(snapshot)]

\* the exception raised by generate_recommendations
RecommendationsRaise(snapshot, response) ==
    IF PrepareRaises(snapshot) \/ response.raises
    THEN "RuntimeError"
    ELSE "None"

ChatEntry(role, message) == [role |-> role, message |-> message]

\* self.chat_history when chat_with_portfolio returns or raises
ChatHistoryAfter(history, user_message, response) ==
    IF response.raises
    THEN Append(history, ChatEntry("user", user_message))
    ELSE Append(Append(history, ChatEntry("user", user_message)),
                ChatEntry("assistant", response.text))


(***************************************************************************)
(* The engine as a state machine.  session holds the reference to the      *)
(* engine (key ai_engine) once a constructor has returned.                 *)
(***************************************************************************)
MaxChat == 4            \* entries of chat_history

HasEngine == "ai_engine" \in DOMAIN session

\* st.session_state.ai_engine = PortfolioAIEngine(api_key=arg), app.py 143-148
NewEngine(arg, configure_ok, test_ok) ==
    /\ ~HasEngine
    /\ Constructed(arg, configure_ok)
    /\ session' = IF ConstructorRaises(arg, configure_ok, test_ok) = "None"
                  THEN Put(session, "ai_engine", "PortfolioAIEngine")
                  ELSE session
    /\ ret' = [op |-> "construct", api_key |-> arg, configure_ok |-> configure_ok,
               test_ok |-> test_ok,
               raised |-> ConstructorRaises(arg, configure_ok, test_ok)]
    /\ UNCHANGED <<procVars, GENAI_AVAILABLE, environ, provenance>>

\* PortfolioAIEngine.analyze_portfolio: the snapshot is added to the store before
\* the summary is prepared and Gemini is called
AnalyzePortfolio(snapshot, response) ==
    /\ HasEngine
    /\ Len(embeddings) < MaxVectors
    /\ IF DataSummaryRaises(snapshot)
       THEN UNCHANGED storeVars
       ELSE /\ index' = Appended(index, CreateEmbeddings(snapshot, dimension))
            /\ embeddings' = Appended(embeddings, CreateEmbeddings(snapshot, dimension))
            /\ metadata' = Appended(metadata, Metadata(snapshot))
            /\ is_trained' = TRUE
            /\ UNCHANGED dimension
    /\ ret' = [op |-> "analyze", data |-> snapshot,
               raised |-> AnalysisRaises(snapshot, response),
               result |-> IF AnalysisRaises(snapshot, response) = "None"
                          THEN Analysis(snapshot, response)
                          ELSE EmptyDict]
    /\ UNCHANGED <<procVars, engineVars, appVars>>

\* PortfolioAIEngine.generate_recommendations
GenerateRecommendations(snapshot, response) ==
    /\ HasEngine
    /\ ret' = [op |-> "recommend", data |-> snapshot,
               raised |-> RecommendationsRaise(snapshot, response),
               context |-> IF PrepareRaises(snapshot) THEN <<>>
                           ELSE GetContextForQuery("investment recommendations", snapshot),
               result |-> IF RecommendationsRaise(snapshot, response) = "None"
                          THEN ParseRecommendations(response.text)
                          ELSE <<>>]
    /\ UNCHANGED <<storeVars, procVars, engineVars, appVars>>

\* PortfolioAIEngine.chat_with_portfolio
ChatWithPortfolio(user_message, snapshot, response) ==
    /\ HasEngine
    /\ Len(chat_history) + 2 <= MaxChat
    /\ chat_history' = ChatHistoryAfter(chat_history, user_message, response)
    /\ ret' = [op |-> "chat", message |-> user_message,
               raised |-> IF response.raises THEN "RuntimeError" ELSE "None",
               result |-> response]
    /\ UNCHANGED <<storeVars, procVars, api_key, client, appVars>>

\* PortfolioAIEngine.clear_chat_history
ClearChatHistory ==
    /\ HasEngine
    /\ chat_history' = <<>>
    /\ ret' = [op |-> "clear"]
    /\ UNCHANGED <<storeVars, procVars, api_key, client, appVars>>

\* PortfolioAIEngine.get_chat_history
GetChatHistory ==
    /\ HasEngine
    /\ ret' = [op |-> "history", result |-> chat_history]
    /\ UNCHANGED <<storeVars, procVars, engineVars, appVars>>

\* the key arguments and the environments the constructor is run with
ApiKeys == {"None", "", "arg-key"}
Environments == {EmptyDict, [GEMINI_API_KEY |-> ""], [GEMINI_API_KEY |-> "env-key"]}

EngineSnapshots == {FullData(1, "even"), WithText(FullData(1, "one"), "total_aum")}
AnalysisResponses == {Returned("analysis"), ApiError}
RecommendationResponses ==
    {Returned(Join(LongResponseLines(MaxRecommendations + 1, 1, 1), 2 * MaxRecommendations + 2)),
     ApiError}
ChatMessages == {"What are the key risks in my portfolio?", "What is my total return?"}
ChatResponses == {Returned("response"), ApiError}

InitEngine ==
    /\ IdleStore
    /\ IdleProcessor
    /\ IdleEngine
    /\ GENAI_AVAILABLE \in BOOLEAN
    /\ environ \in Environments
    /\ session = EmptyDict
    /\ provenance = NoProvenance
    /\ ret = [op |-> "init"]

NextEngine ==
    \/ \E arg \in ApiKeys, configure_ok, test_ok \in BOOLEAN :
           NewEngine(arg, configure_ok, test_ok)
    \/ \E snapshot \in EngineSnapshots, response \in AnalysisResponses :
           AnalyzePortfolio(snapshot, response)
    \/ \E snapshot \in EngineSnapshots, response \in RecommendationResponses :
           GenerateRecommendations(snapshot, response)
    \/ \E user_message \in ChatMessages, response \in ChatResponses :
           ChatWithPortfolio(user_message, FullData(1, "even"), response)
    \/ ClearChatHistory
    \/ GetChatHistory

SpecEngine == InitEngine /\ [][NextEngine]_vars


(***************************************************************************)
(* The Streamlit session (frontend/app.py).  Every interaction of the user *)
(* runs main() once; a run is computed on the record of everything the     *)
(* session owns: st.session_state, the data processor and the engine       *)
(* referenced from it.  The field calls lists the backend calls of the     *)
(* run.  When the session holds no engine, the engine fields are those of  *)
(* IdleEngine and IdleStore.  The display functions change nothing and are *)
(* taken to return.                                                        *)
(***************************************************************************)
World ==
    [session |-> session, data |-> data, processed_data |-> processed_data,
     api_key |-> api_key, client |-> client, chat_history |-> chat_history,
     dimension |-> dimension, index |-> index, embeddings |-> embeddings,
     metadata |-> metadata, is_trained |-> is_trained, provenance |-> provenance,
     calls |-> <<>>]

NoHash == <<>>          \* last_processed_file = None

\* utils.initialize_session_state
SessionDefaults ==
    [data_loaded |-> FALSE, raw_data |-> EmptyDict, portfolio_summary |-> EmptyDict,
     holdings_data |-> EmptyDict, performance_data |-> EmptyDict, risk_data |-> EmptyDict,
     ai_analysis |-> EmptyDict, ai_recommendations |-> <<>>, chat_messages |-> <<>>,
     last_processed_file |-> NoHash, ai_analysis_done |-> FALSE, gemini_api_key |-> ""]

InitializeSessionState(state) ==
    [key \in DOMAIN state \cup DOMAIN SessionDefaults |->
        IF key \in DOMAIN state THEN state[key] ELSE SessionDefaults[key]]

Called(w, call) == [w EXCEPT !.calls = Append(@, call)]

\* for key in list(st.session_state.keys()): del st.session_state[key]; the
\* processor and the engine go with the references to them
Cleared(w) ==
    [w EXCEPT !.session = EmptyDict, !.data = EmptyDict, !.processed_data = EmptyDict,
              !.api_key = "None", !.client = "None", !.chat_history = <<>>,
              !.dimension = DefaultDimension, !.index = <<>>, !.embeddings = <<>>,
              !.metadata = <<>>, !.is_trained = FALSE, !.provenance = NoProvenance]

\* if 'ai_engine' not in st.session_state: try: st.session_state.ai_engine =
\* PortfolioAIEngine(api_key=api_key); a constructor that raises leaves no engine
WithEngine(w, configure_ok, test_ok) ==
    IF "ai_engine" \in DOMAIN w.session THEN w
    ELSE IF ConstructorRaises(Getenv("GEMINI_API_KEY"), configure_ok, test_ok) = "None"
    THEN [Called(w, "construct") EXCEPT
            !.session = Put(@, "ai_engine", "PortfolioAIEngine"),
            !.api_key = ConstructedApiKey(Getenv("GEMINI_API_KEY")),
            !.client = ConstructedClient(Getenv("GEMINI_API_KEY"), configure_ok),
            !.chat_history = <<>>,
            !.dimension = DefaultDimension, !.index = <<>>, !.embeddings = <<>>,
            !.metadata = <<>>, !.is_trained = FALSE]
    ELSE Called(w, "construct raised")

\* processed_data of trigger_ai_analysis, lines 151-160
ProcessedDataOf(w) ==
    [portfolio_summary |-> w.session.portfolio_summary,
     holdings_data |-> w.session.holdings_data,
     performance_summary |-> w.session.performance_data,
     risk_summary |-> w.session.risk_data,
     top_holdings |-> Get(w.session.holdings_data, "top_holdings", <<>>),
     sector_allocation |-> Get(w.session.holdings_data, "sector_allocation", EmptyDict),
     raw_holdings_df |-> IF "data_processor" \in DOMAIN w.session
                         THEN Get(w.data, "Holdings_Detail", <<>>)
                         ELSE <<>>]

AddedOnce(w, snapshot) ==
    LET embedding == CreateEmbeddings(snapshot, w.dimension)
    IN IF \E i \in 1..Len(w.embeddings) : w.embeddings[i] = embedding
       THEN Called(w, "add")
       ELSE [Called(w, "add") EXCEPT
               !.index = Appended(@, embedding),
               !.embeddings = Appended(@, embedding),
               !.metadata = Appended(@, Metadata(snapshot)),
               !.is_trained = TRUE]

\* self.vector_store.add_portfolio_data(processed_data) when it returns
Added(w, snapshot) ==
    LET embedding == CreateEmbeddings(snapshot, w.dimension)
    IN [Called(w, "add") EXCEPT
           !.index = Appended(@, embedding),
           !.embeddings = Appended(@, embedding),
           !.metadata = Appended(@, Metadata(snapshot)),
           !.is_trained = TRUE]

\* add_portfolio_data raises on a summary it cannot format, before it adds
AddedTo(w, snapshot) ==
    IF DataSummaryRaises(snapshot) THEN Called(w, "add raised") ELSE Added(w, snapshot)

\* the summaries of the processed_data handed to the engine, lines 152-155
SummariesOf(snapshot) ==
    <<snapshot.portfolio_summary, snapshot.holdings_data, snapshot.performance_summary,
      snapshot.risk_summary>>

\* generated by the run of trigger_ai_analysis that is under way
GeneratedFrom(snapshot) == [run |-> "latest", summaries |-> SummariesOf(snapshot)]

\* a call of trigger_ai_analysis makes what the runs before it generated earlier work
Aged(w) ==
    [w EXCEPT !.provenance =
        [key \in DOMAIN @ |->
            [@[key] EXCEPT !.run = IF @ = "none" THEN "none" ELSE "earlier"]]]

\* st.session_state.ai_analysis = ...analyze_portfolio(processed_data), line 163
WithAnalysis(w, snapshot, outcome) ==
    [Called(w, "analyze") EXCEPT
        !.session = Put(@, "ai_analysis", Analysis(snapshot, outcome.analysis)),
        !.provenance.ai_analysis = GeneratedFrom(snapshot)]

\* lines 164-165
WithRecommendations(w, snapshot, outcome) ==
    [Called(w, "recommend") EXCEPT
        !.session = Put(Put(@, "ai_recommendations",
                            ParseRecommendations(outcome.recommendations.text)),
                        "ai_analysis_done", TRUE),
        !.provenance.ai_recommendations = GeneratedFrom(snapshot)]

\* lines 163-171 on the engine whose store has taken the snapshot: an exception
\* of either call ends the run of trigger_ai_analysis
Analysed(added, snapshot, outcome) ==
    IF AnalysisRaises(snapshot, outcome.analysis) # "None" THEN added
    ELSE IF RecommendationsRaise(snapshot, outcome.recommendations) # "None"
    THEN WithAnalysis(added, snapshot, outcome)
    ELSE WithRecommendations(WithAnalysis(added, snapshot, outcome), snapshot, outcome)

\* lines 150-171, after the attempt to construct the engine
Triggered(engine, snapshot, outcome) ==
    IF "ai_engine" \notin DOMAIN engine.session THEN engine
    ELSE Analysed(AddedTo(engine, snapshot), snapshot, outcome)

\* trigger_ai_analysis; outcome: the Gemini calls of the run
TriggerAiAnalysis(w, outcome) ==
    IF Getenv("GEMINI_API_KEY") \in {"None", ""} THEN Aged(w)
    ELSE IF ~Get(w.session, "data_loaded", FALSE) THEN Aged(w)
    ELSE Triggered(WithEngine(Aged(w), outcome.configure_ok, outcome.test_ok),
                   ProcessedDataOf(w), outcome)

\* str(hash(uploaded_file.name + str(uploaded_file.size)))
FileHash(file) == <<file.name, file.size>>

\* get_holdings_data
HoldingsData(processed) ==
    [top_holdings |-> Get(processed, "top_holdings", <<>>),
     sector_allocation |-> Get(processed, "sector_allocation", EmptyDict),
     total_holdings |-> Get(Get(processed, "portfolio_summary", EmptyDict),
                            "total_holdings", Num(0))]

StoredKeepingFlag(state, file, sheets, processed) ==
    [key \in DOMAIN state |->
        CASE key = "raw_data" -> sheets
          [] key = "portfolio_summary" -> Get(processed, "portfolio_summary", EmptyDict)
          [] key = "holdings_data" -> HoldingsData(processed)
          [] key = "performance_data" -> Get(processed, "performance_summary", EmptyDict)
          [] key = "risk_data" -> Get(processed, "risk_summary", EmptyDict)
          [] key = "data_loaded" -> TRUE
          [] key = "last_processed_file" -> FileHash(file)
          [] OTHER -> state[key]]

\* lines 197-204 of process_uploaded_file
Stored(state, file, sheets, processed) ==
    [key \in DOMAIN state |->
        CASE key = "raw_data" -> sheets
          [] key = "portfolio_summary" -> Get(processed, "portfolio_summary", EmptyDict)
          [] key = "holdings_data" -> HoldingsData(processed)
          [] key = "performance_data" -> Get(processed, "performance_summary", EmptyDict)
          [] key = "risk_data" -> Get(processed, "risk_summary", EmptyDict)
          [] key = "data_loaded" -> TRUE
          [] key = "last_processed_file" -> FileHash(file)
          [] key = "ai_analysis_done" -> FALSE
          [] OTHER -> state[key]]

\* if 'data_processor' not in st.session_state: ... = PortfolioDataProcessor()
WithProcessor(w) ==
    IF "data_processor" \in DOMAIN w.session THEN w
    ELSE [w EXCEPT !.session = Put(@, "data_processor", "PortfolioDataProcessor"),
                   !.data = EmptyDict, !.processed_data = EmptyDict]

\* data_processor.load_excel_file(temp_path), returning or raising
LoadedInto(w, file) ==
    [Called(w, "load") EXCEPT
        !.data = LoadedData(file.sheets, w.data),
        !.processed_data = LoadedProcessedData(file.sheets, w.processed_data)]

StoredIn(w, file) == [w EXCEPT !.session = Stored(@, file, w.data, w.processed_data)]

\* lines 182-218: an exception of load_excel_file ends the run of the function
Processed(w, file, outcome) ==
    IF LoadRaises(file.sheets) # "None" THEN LoadedInto(w, file)
    ELSE TriggerAiAnalysis(StoredIn(LoadedInto(w, file), file), outcome)

Reprocessed(w, file, outcome) == Processed(WithProcessor(w), file, outcome)

\* process_uploaded_file
ProcessUploadedFile(w, file, outcome) ==
    IF /\ Get(w.session, "last_processed_file", NoHash) = FileHash(file)
       /\ Get(w.session, "data_loaded", FALSE)
    THEN w
    ELSE Processed(WithProcessor(w), file, outcome)

HasApiKey == Getenv("GEMINI_API_KEY") \notin {"None", ""}

\* main, lines 43-46
Started(w) == [w EXCEPT !.session = InitializeSessionState(@)]

\* main, lines 56-63
Uploaded(w, file, outcome) ==
    IF file.name # "None" THEN ProcessUploadedFile(w, file, outcome) ELSE w

\* main, lines 75-78; click is the button pressed, "none" when the run has
\* another cause
Generated(w, click, outcome) ==
    IF w.session.data_loaded /\ HasApiKey /\ click = "generate"
    THEN TriggerAiAnalysis([w EXCEPT !.session = Put(@, "ai_analysis_done", FALSE)], outcome)
    ELSE w

(***************************************************************************)
(* components.render_chat_interface.  A run started by the chat input or   *)
(* by a suggested question carries the text in outcome.prompt, the result  *)
(* of the Gemini request of chat_with_portfolio in outcome.chat and that   *)
(* of the direct request of line 490 in outcome.direct.                    *)
(***************************************************************************)
Message(role, content) == [role |-> role, content |-> content]

FallbackResponse == "I can provide information about portfolio performance, holdings and risk."

\* "I can provide information about portfolio performance" in response, for the
\* responses of the model
IsFallback(response) == response \in {FallbackResponse}

\* f"... Error generating response: {str(e)}", line 507
InputError == "Error generating response: AI chat failed"

\* f"I apologize, but I encountered an error: {str(e)}", line 545
SuggestionError == "I apologize, but I encountered an error: AI chat failed"

\* st.session_state.chat_messages.append({"role": role, "content": content})
Said(w, role, content) ==
    [w EXCEPT !.session.chat_messages = Append(@, Message(role, content))]

\* ai_engine.chat_with_portfolio(prompt, processed_data), returning or raising
Chatted(w, prompt, response) ==
    [Called(w, IF response.raises THEN "chat raised" ELSE "chat") EXCEPT
        !.chat_history = ChatHistoryAfter(@, prompt, response)]

\* lines 470-499: a fallback response is followed by a direct request, whose
\* exception is caught at line 498
DirectCalled(w, outcome) ==
    IF outcome.chat.raises \/ ~IsFallback(outcome.chat.text) THEN w
    ELSE Called(w, IF outcome.direct.raises THEN "direct raised" ELSE "direct")

\* the content of the assistant entry of lines 504 and 510
InputAnswer(outcome) ==
    IF outcome.chat.raises THEN InputError
    ELSE IF IsFallback(outcome.chat.text) /\ ~outcome.direct.raises THEN outcome.direct.text
    ELSE outcome.chat.text

\* lines 451-510: the chat input
ChatInputSubmitted(w, outcome) ==
    Said(DirectCalled(Chatted(Said(w, "user", outcome.prompt), outcome.prompt, outcome.chat),
                      outcome),
         "assistant", InputAnswer(outcome))

ChatClearedInUiOnly(w) ==
    Called([w EXCEPT !.session.chat_messages = <<>>], "clear")

\* lines 516-520: Clear Chat History, up to st.rerun()
ChatCleared(w) ==
    Called([w EXCEPT !.session.chat_messages = <<>>, !.chat_history = <<>>], "clear")

\* the content of the assistant entry of lines 542 and 546
SuggestionAnswer(outcome) ==
    IF outcome.chat.raises THEN SuggestionError ELSE outcome.chat.text

SuggestionRerunCaught(w, outcome) ==
    Called(Said(Said(Chatted(Said(w, "user", outcome.prompt), outcome.prompt, outcome.chat),
                     "assistant", SuggestionAnswer(outcome)),
                "assistant", SuggestionError),
           "suggested")

\* lines 535-547: a suggested question, up to st.rerun()
SuggestionClicked(w, outcome) ==
    Called(Said(Chatted(Said(w, "user", outcome.prompt), outcome.prompt, outcome.chat),
                "assistant", SuggestionAnswer(outcome)),
           "suggested")

\* render_chat_interface(st.session_state.ai_engine), not reached after st.stop()
RenderChatInterface(w, click, outcome) ==
    IF "ai_engine" \notin DOMAIN w.session THEN w
    ELSE CASE click = "chat" -> ChatInputSubmitted(w, outcome)
           [] click = "clear" -> ChatCleared(w)
           [] click = "suggest" -> SuggestionClicked(w, outcome)
           [] OTHER -> w

\* main, lines 81-127: Reset Data ends the run; otherwise the chat section
\* constructs the engine when the session has none and renders the interface
Rendered(w, click, outcome) ==
    IF w.session.data_loaded /\ click = "reset" THEN Called(Cleared(w), "reset")
    ELSE IF w.session.data_loaded /\ HasApiKey
    THEN RenderChatInterface(WithEngine(w, outcome.configure_ok, outcome.test_ok),
                             click, outcome)
    ELSE w

\* main() up to the end of the script or to the st.rerun() of Reset Data
MainBody(w, file, click, outcome) ==
    Rendered(Generated(Uploaded(Started(w), file, outcome), click, outcome), click, outcome)

\* st.rerun() starts the script again, with no button pressed
Rerunning(w, file, outcome) ==
    IF w.calls # <<>> /\ w.calls[Len(w.calls)] \in {"reset", "clear", "suggested"}
    THEN MainBody(w, file, "none", outcome)
    ELSE w

\* the run caused by the interaction and, after Reset Data, Clear Chat History or a
\* suggested question, the run st.rerun() starts
Main(w, file, click, outcome) == Rerunning(MainBody(w, file, click, outcome), file, outcome)

Run(file, click, outcome) ==
    \E w \in {Main(World, file, click, outcome)} :
       /\ uploaded_file' = file
       /\ session' = w.session
       /\ provenance' = w.provenance
       /\ data' = w.data
       /\ processed_data' = w.processed_data
       /\ api_key' = w.api_key
       /\ client' = w.client
       /\ chat_history' = w.chat_history
       /\ dimension' = w.dimension
       /\ index' = w.index
       /\ embeddings' = w.embeddings
       /\ metadata' = w.metadata
       /\ is_trained' = w.is_trained
       /\ ret' = [op |-> "main", click |-> click, calls |-> w.calls]
       /\ UNCHANGED <<GENAI_AVAILABLE, environ>>

\* the user puts a file in the uploader
ChooseFile(file, outcome) ==
    /\ file # uploaded_file
    /\ Len(embeddings) < MaxVectors
    /\ Run(file, "none", outcome)

\* the user takes the file out of the uploader
RemoveFile(outcome) ==
    /\ uploaded_file.name # "None"
    /\ Run(NoFile, "none", outcome)

\* the page is opened, or refreshed by an interaction that sets nothing
Rerun(outcome) == Run(uploaded_file, "none", outcome)

\* the button Generate AI Analysis, rendered when data is loaded and the key is set
ClickGenerate(outcome) ==
    /\ Get(session, "data_loaded", FALSE)
    /\ HasApiKey
    /\ Len(embeddings) < MaxVectors
    /\ Run(uploaded_file, "generate", outcome)

\* the button Reset Data, rendered when data is loaded
ClickResetData(outcome) ==
    /\ Get(session, "data_loaded", FALSE)
    /\ Run(uploaded_file, "reset", outcome)

ShortRecommendations == Returned(Join(LongResponseLines(2, 1, 1), 4))

\* the Gemini calls of a run: all return, or the first that raises is the test
\* request of the constructor, the analysis or the recommendations
AllReturn ==
    [configure_ok |-> TRUE, test_ok |-> TRUE, analysis |-> Returned("analysis"),
     recommendations |-> ShortRecommendations]

Outcomes ==
    {AllReturn, [AllReturn EXCEPT !.test_ok = FALSE], [AllReturn EXCEPT !.analysis = ApiError],
     [AllReturn EXCEPT !.recommendations = ApiError]}

OtherHoldings == <<HoldingRow(1, 2, "Energy"), HoldingRow(2, 1, NoSector)>>

\* two workbooks that load, one more under the name and size of the first, one
\* without a sheet and one whose dates do not parse
Files ==
    {[name |-> "a.xlsx", size |-> 1, sheets |-> BaseWorkbook],
     [name |-> "b.xlsx", size |-> 2,
      sheets |-> WithSheet(BaseWorkbook, "Holdings_Detail", OtherHoldings)],
     [name |-> "a.xlsx", size |-> 1,
      sheets |-> WithSheet(BaseWorkbook, "Historical_Performance", <<PerformanceRow(Day(1), 2)>>)],
     [name |-> "c.xlsx", size |-> 3,
      sheets |-> Restrict(BaseWorkbook, SeqRange(ExpectedSheets) \ {"Benchmarks"})],
     [name |-> "d.xlsx", size |-> 4,
      sheets |-> WithSheet(BaseWorkbook, "Risk_Metrics", <<RiskRow(BadDate, 1)>>)]}

Init ==
    /\ IdleStore
    /\ IdleProcessor
    /\ IdleEngine
    /\ GENAI_AVAILABLE \in BOOLEAN
    /\ environ \in Environments
    /\ session = EmptyDict
    /\ provenance = NoProvenance
    /\ ret = [op |-> "init"]

Next ==
    \/ \E file \in Files, outcome \in Outcomes : ChooseFile(file, outcome)
    \/ \E outcome \in Outcomes : RemoveFile(outcome)
    \/ \E outcome \in Outcomes : Rerun(outcome)
    \/ \E outcome \in Outcomes : ClickGenerate(outcome)
    \/ \E outcome \in Outcomes : ClickResetData(outcome)

Spec == Init /\ [][Next]_vars


(***************************************************************************)
(* The session with its chat interface: the interactions of Spec on fewer  *)
(* files and outcomes, and the chat input, the suggested questions and     *)
(* Clear Chat History.                                                     *)
(***************************************************************************)
\* the interface was rendered by the run before
ChatRendered ==
    /\ Get(session, "data_loaded", FALSE)
    /\ HasApiKey
    /\ "ai_engine" \in DOMAIN session

ChatRoom ==
    /\ Len(session.chat_messages) + 2 <= MaxChat
    /\ Len(chat_history) + 2 <= MaxChat

\* st.chat_input returns the text the user sent
ChatInput(outcome) ==
    /\ ChatRendered
    /\ ChatRoom
    /\ Run(uploaded_file, "chat", outcome)

\* one of the buttons of the suggested questions
ClickSuggestion(outcome) ==
    /\ ChatRendered
    /\ ChatRoom
    /\ Run(uploaded_file, "suggest", outcome)

\* the button Clear Chat History
ClickClearChatHistory(outcome) ==
    /\ ChatRendered
    /\ Run(uploaded_file, "clear", outcome)

\* the requests of a run with a question: the chat request returns an answer or
\* the fallback text, or raises; the direct request returns or raises
Asked(prompt, chat, direct) ==
    [configure_ok |-> TRUE, test_ok |-> TRUE, analysis |-> Returned("analysis"),
     recommendations |-> ShortRecommendations, prompt |-> prompt, chat |-> chat,
     direct |-> direct]

TypedPrompts == {"What is my total return?"}
Suggestions == {"What are the key risks in my portfolio?"}

ChatOutcomes(prompts) ==
    {Asked(prompt, Returned("response"), ApiError) : prompt \in prompts}
    \cup {Asked(prompt, ApiError, ApiError) : prompt \in prompts}
    \cup {Asked(prompt, Returned(FallbackResponse), direct) :
             prompt \in prompts, direct \in {Returned("enhanced"), ApiError}}

\* a workbook that loads and one whose dates do not parse
ChatFiles ==
    {file \in Files :
        \/ file.name = "d.xlsx"
        \/ file.name = "a.xlsx" /\ file.sheets = BaseWorkbook}

QuietOutcomes == {AllReturn, [AllReturn EXCEPT !.analysis = ApiError]}

NextChat ==
    \/ \E file \in ChatFiles, outcome \in QuietOutcomes : ChooseFile(file, outcome)
    \/ RemoveFile(AllReturn)
    \/ ClickGenerate(AllReturn)
    \/ ClickResetData(AllReturn)
    \/ \E outcome \in ChatOutcomes(TypedPrompts) : ChatInput(outcome)
    \/ \E outcome \in ChatOutcomes(Suggestions) : ClickSuggestion(outcome)
    \/ ClickClearChatHistory(AllReturn)

SpecChat == Init /\ [][NextChat]_vars


(***************************************************************************)
(* C1: on a store whose n snapshots were all added by add_portfolio_data,  *)
(* search_similar_portfolios(query, k) with k >= 1 returns min(k, n)       *)
(* results ranked 1..min(k, n) with non-increasing similarity scores; the  *)
(* results are distinct snapshots, each scored by the inner product of the *)
(* query embedding with its embedding, and no snapshot left out scores     *)
(* strictly higher than a returned one; on an empty store the result is    *)
(* the empty list.                                                         *)
(***************************************************************************)
Injections(m, n) ==
    {f \in [1..m -> 1..n] : \A i, j \in 1..m : i # j => f[i] # f[j]}

C2_FixedLength ==
    ret.op = "embed" =>
        /\ Len(ret.value) = dimension
        /\ CreateEmbeddingsRaises(ret.data) =>
               \A i \in 1..dimension : ret.value[i] = 0
        /\ ~CreateEmbeddingsRaises(ret.data) =>
               \A i \in 1..dimension :
                   ret.value[i] = IF i <= Len(Features(ret.data))
                                  THEN Features(ret.data)[i] ELSE 0

\* an input with more features than the store's dimension
C2_Witness ==
    /\ ret.op = "embed"
    /\ ~CreateEmbeddingsRaises(ret.data)
    /\ Len(Features(ret.data)) > dimension
    /\ ret.value[dimension] # 0

(***************************************************************************)
(* C8: the number of stored vectors never decreases; a successful          *)
(* add_portfolio_data raises it by exactly one, also for data that is      *)
(* already stored; search_similar_portfolios, get_context_for_query and    *)
(* get_stats leave the store unchanged.                                    *)
(***************************************************************************)
C8_NoEviction ==
    [][/\ Len(embeddings') >= Len(embeddings)
       /\ Len(index') >= Len(index)
       /\ (ret'.op = "add" /\ ~ret'.raised) =>
              /\ Len(embeddings') = Len(embeddings) + 1
              /\ Len(index') = Len(index) + 1
              /\ Len(metadata') = Len(metadata) + 1
       /\ ret'.op \in {"search", "context", "stats"} => UNCHANGED storeVars]_vars

\* the same data added twice
C8_Witness ==
    /\ ret.op = "add"
    /\ ~ret.raised
    /\ Len(embeddings) = 2
    /\ embeddings[1] = embeddings[2]
    /\ metadata[1] = metadata[2]

(***************************************************************************)
(* C3: when at least one of the seven required sheets is absent,           *)
(* load_excel_file raises ValueError "Missing required sheet: X", X being  *)
(* the first absent sheet in the order Portfolio_Overview, Holdings_Detail,*)
(* Historical_Performance, Benchmarks, Risk_Metrics, Cash_Flows,           *)
(* Market_Data, and the processor's data and processed_data stay what they *)
(* were before the call.                                                   *)
(***************************************************************************)
RequiredSheets ==
    <<"Portfolio_Overview", "Holdings_Detail", "Historical_Performance", "Benchmarks",
      "Risk_Metrics", "Cash_Flows", "Market_Data">>

C3_MissingSheet ==
    [][(/\ ret'.op = "load"
        /\ \E i \in 1..7 : RequiredSheets[i] \notin DOMAIN uploaded_file.sheets)
       => /\ ret'.raised = "ValueError"
          /\ \E i \in 1..7 :
                /\ RequiredSheets[i] \notin DOMAIN uploaded_file.sheets
                /\ \A j \in 1..(i - 1) : RequiredSheets[j] \in DOMAIN uploaded_file.sheets
                /\ ret'.message = <<"Missing required sheet: ", RequiredSheets[i]>>
          /\ data' = data
          /\ processed_data' = processed_data]_vars

\* a workbook without two of the sheets, loaded over a loaded workbook
C3_Witness ==
    /\ ret.op = "load"
    /\ ret.raised = "ValueError"
    /\ ret.message[2] = "Benchmarks"
    /\ "Market_Data" \notin DOMAIN ret.file.sheets
    /\ "risk_summary" \in DOMAIN processed_data
    /\ "Market_Data" \in DOMAIN data

(***************************************************************************)
(* C5: after a successful load_excel_file, performance_summary is taken    *)
(* from the Historical_Performance row with the greatest Date and          *)
(* risk_summary from the Risk_Metrics row with the greatest Date, whatever *)
(* the order of the rows in the uploaded sheet.                            *)
(***************************************************************************)
HasGreatestDate(rows, i) ==
    /\ rows[i].Date.kind = "date"
    /\ \A j \in 1..Len(rows) : rows[j].Date.kind = "date" => rows[j].Date.day <= rows[i].Date.day

Dated(rows) == \E i \in 1..Len(rows) : rows[i].Date.kind = "date"

C5_LatestRows ==
    (ret.op = "load" /\ ret.raised = "None") =>
        LET perf == ret.file.sheets["Historical_Performance"]
            risk == ret.file.sheets["Risk_Metrics"]
        IN /\ Dated(perf) =>
                \E i \in 1..Len(perf) :
                    /\ HasGreatestDate(perf, i)
                    /\ processed_data.performance_summary.current_value = perf[i].Portfolio_Value
                    /\ processed_data.performance_summary.total_return = perf[i].Cumulative_Return
                    /\ processed_data.performance_summary.volatility = perf[i].Volatility
           /\ Dated(risk) =>
                \E i \in 1..Len(risk) :
                    /\ HasGreatestDate(risk, i)
                    /\ processed_data.risk_summary.portfolio_beta = risk[i].Portfolio_Beta
                    /\ processed_data.risk_summary.var_95 = risk[i].VaR_95
                    /\ processed_data.risk_summary.tracking_error = risk[i].Tracking_Error

(***************************************************************************)
(* C6: after a successful load_excel_file, top_holdings holds at most 10   *)
(* holdings (all of them when there are 10 or fewer) in non-increasing     *)
(* Market_Value, every holding not listed has a Market_Value no greater    *)
(* than each listed one, and portfolio_summary.total_holdings is the       *)
(* number of rows of Holdings_Detail.                                      *)
(***************************************************************************)
C6_TopHoldings ==
    (ret.op = "load" /\ ret.raised = "None") =>
        LET rows == ret.file.sheets["Holdings_Detail"]
            top == processed_data.top_holdings
            listed == {top[i].Asset_Name : i \in 1..Len(top)}
        IN /\ Len(top) = IF Len(rows) <= 10 THEN Len(rows) ELSE 10
           /\ \A i \in 1..Len(top) : \A j \in i..Len(top) :
                  top[i].Market_Value.v >= top[j].Market_Value.v
           /\ Cardinality(listed) = Len(top)
           /\ \A i \in 1..Len(top) :
                  \E j \in 1..Len(rows) :
                      /\ rows[j].Asset_Name = top[i].Asset_Name
                      /\ rows[j].Market_Value = top[i].Market_Value
                      /\ rows[j].Sector = top[i].Sector
           /\ \A j \in 1..Len(rows) :
                  rows[j].Asset_Name \notin listed =>
                      \A i \in 1..Len(top) : rows[j].Market_Value.v <= top[i].Market_Value.v
           /\ processed_data.portfolio_summary.total_holdings = Num(Len(rows))

\* more than 10 holdings, not in order of value: a holding behind the tenth row is
\* listed and one of the first ten rows is not
C6_Witness ==
    /\ ret.op = "load"
    /\ ret.raised = "None"
    /\ LET rows == ret.file.sheets["Holdings_Detail"]
           listed == {processed_data.top_holdings[i].Asset_Name : i \in 1..10}
       IN /\ Len(rows) > 10
          /\ \E name \in listed : name > 10
          /\ \E j \in 1..10 : rows[j].Asset_Name \notin listed
          /\ processed_data.top_holdings[1].Market_Value.v
                > processed_data.top_holdings[10].Market_Value.v

(***************************************************************************)
(* C7, as claimed: after a successful load_excel_file every holding is     *)
(* counted in exactly one sector of sector_allocation and the sector       *)
(* values add up to portfolio_summary.total_market_value, also when some   *)
(* holdings have no Sector value.                                          *)
(***************************************************************************)
SumAllocation(allocation) ==
    LET values == DictValues(allocation)
    IN SumSeq([i \in 1..Len(values) |-> values[i].v])

C7_SectorsSumToTotal ==
    (ret.op = "load" /\ ret.raised = "None") =>
        LET rows == ret.file.sheets["Holdings_Detail"]
        IN /\ \A i \in 1..Len(rows) : rows[i].Sector \in DOMAIN processed_data.sector_allocation
           /\ SumAllocation(processed_data.sector_allocation)
                 = processed_data.portfolio_summary.total_market_value.v

(***************************************************************************)
(* C7, amended: after a successful load_excel_file sector_allocation maps  *)
(* each sector named by a holding to the sum of Market_Value of the        *)
(* holdings of that sector; a holding with a Sector value is counted in    *)
(* exactly one sector and a holding without one in none, so the sector     *)
(* values add up to total_market_value less the Market_Value of the        *)
(* holdings without a Sector value.                                        *)
(***************************************************************************)
RECURSIVE SumWhere(_, _, _)
SumWhere(rows, sectors, i) ==
    IF i = 0 THEN 0
    ELSE (IF rows[i].Sector \in sectors THEN rows[i].Market_Value.v ELSE 0)
         + SumWhere(rows, sectors, i - 1)

C7_SectorSums ==
    (ret.op = "load" /\ ret.raised = "None") =>
        LET rows == ret.file.sheets["Holdings_Detail"]
            allocation == processed_data.sector_allocation
            total == processed_data.portfolio_summary.total_market_value.v
        IN /\ DOMAIN allocation = {rows[i].Sector : i \in 1..Len(rows)} \ {NoSector}
           /\ \A s \in DOMAIN allocation : allocation[s].v = SumWhere(rows, {s}, Len(rows))
           /\ total = SumWhere(rows, {rows[i].Sector : i \in 1..Len(rows)}, Len(rows))
           /\ SumAllocation(allocation) = total - SumWhere(rows, {NoSector}, Len(rows))

\* two sectors and a holding without a Sector value
C7_Witness ==
    /\ ret.op = "load"
    /\ ret.raised = "None"
    /\ Cardinality(DOMAIN processed_data.sector_allocation) = 2
    /\ \E i \in 1..Len(ret.file.sheets["Holdings_Detail"]) :
           ret.file.sheets["Holdings_Detail"][i].Sector = NoSector
    /\ SumAllocation(processed_data.sector_allocation)
          < processed_data.portfolio_summary.total_market_value.v

(***************************************************************************)
(* C4: for every response text _parse_recommendations returns at most 7    *)
(* records, one for each of the first 7 numbered lines of the text and in  *)
(* the order of those lines; every record has exactly the fields title,    *)
(* description, priority, rationale and impact, and its priority is High,  *)
(* Medium or Low.                                                          *)
(***************************************************************************)
\* the stripped, non-empty lines of the text that are numbered, in their order
NumberedLines(text) ==
    LET lines == Split(text, NL)
        stripped == [i \in 1..Len(lines) |-> Strip(lines[i])]
        IsItem(line) == line # <<>> /\ IsNumbered(line)
    IN SelectSeq(stripped, IsItem)

C4_ParsedRecords ==
    ret.op = "parse" =>
        LET numbered == NumberedLines(ret.text)
        IN /\ Len(ret.result) <= 7
           /\ Len(ret.result) = IF Len(numbered) <= 7 THEN Len(numbered) ELSE 7
           /\ \A i \in 1..Len(ret.result) :
                  /\ ret.result[i].title = Title(numbered[i])
                  /\ DOMAIN ret.result[i]
                        = {"title", "description", "priority", "rationale", "impact"}
                  /\ ret.result[i].priority \in {"High", "Medium", "Low"}

\* more than 7 numbered lines with different titles, and priorities of all three kinds
C4_Witness ==
    /\ ret.op = "parse"
    /\ Len(NumberedLines(ret.text)) > 7
    /\ Len(ret.result) = 7
    /\ \A i, j \in 1..7 : i # j => ret.result[i].title # ret.result[j].title
    /\ {ret.result[i].priority : i \in 1..7} = {"High", "Medium", "Low"}
    /\ \E i \in 1..7 : ret.result[i].description # ret.result[i].title

(***************************************************************************)
(* C10: PortfolioAIEngine(api_key) raises ImportError when the             *)
(* generative-AI package is unavailable, whatever the key; otherwise       *)
(* ValueError when neither the api_key argument nor GEMINI_API_KEY is set; *)
(* otherwise RuntimeError when configuring the client or the test request  *)
(* fails.  When it returns, the client is not None and the chat history    *)
(* and the vector store are empty.                                         *)
(***************************************************************************)
C10_Constructor ==
    ret.op = "construct" =>
        /\ ~GENAI_AVAILABLE => ret.raised = "ImportError"
        /\ (/\ GENAI_AVAILABLE
            /\ ret.api_key = "None"
            /\ "GEMINI_API_KEY" \notin DOMAIN environ) => ret.raised = "ValueError"
        /\ (/\ GENAI_AVAILABLE
            /\ ret.api_key \notin {"None", ""} \/ Getenv("GEMINI_API_KEY") \notin {"None", ""}
            /\ ~ret.configure_ok \/ ~ret.test_ok) => ret.raised = "RuntimeError"
        /\ ret.raised = "None" =>
              /\ HasEngine
              /\ client # "None"
              /\ chat_history = <<>>
              /\ index = <<>> /\ embeddings = <<>> /\ metadata = <<>>
        /\ ret.raised # "None" => ~HasEngine

\* with a key and without the package the constructor raised ImportError
C10_Witness ==
    /\ ret.op = "construct"
    /\ ~GENAI_AVAILABLE
    /\ ret.api_key = "arg-key"
    /\ ret.raised = "ImportError"

Cuts(calls) == {i \in 1..Len(calls) : calls[i] \in {"construct", "reset"}}

\* the add_portfolio_data calls of a run that returned, on the store the run ends with
Adds(calls) ==
    Cardinality({i \in 1..Len(calls) : calls[i] = "add" /\ \A j \in Cuts(calls) : j < i})

Processing == {"load", "add", "add raised", "analyze", "recommend"}

C12_ResetStartsFresh ==
    [][ret'.click = "reset" =>
         /\ ~session'.data_loaded
         /\ \A key \in {"raw_data", "portfolio_summary", "holdings_data",
                         "performance_data", "risk_data", "ai_analysis"} :
                DOMAIN session'[key] = {}
         /\ Len(session'.ai_recommendations) = 0
         /\ Len(session'.chat_messages) = 0
         /\ ~session'.ai_analysis_done
         /\ "ai_engine" \notin DOMAIN session'
         /\ "data_processor" \notin DOMAIN session']_vars

(***************************************************************************)
(* C16: whenever the dashboard is rendered, the sheets served by the       *)
(* session's data processor and its metrics are those of the upload the    *)
(* summaries in session state were stored from: a load that raised left    *)
(* data and processed_data as they were.                                   *)
(***************************************************************************)
C16_DashboardFromOneFile ==
    Get(session, "data_loaded", FALSE) =>
        /\ data = session.raw_data
        /\ session.portfolio_summary = Get(processed_data, "portfolio_summary", EmptyDict)
        /\ session.performance_data = Get(processed_data, "performance_summary", EmptyDict)
        /\ session.risk_data = Get(processed_data, "risk_summary", EmptyDict)

\* entries whose roles are user, assistant, user, assistant, ...
Alternates(entries) ==
    \A i \in 1..Len(entries) :
        entries[i].role = IF i % 2 = 1 THEN "user" ELSE "assistant"

(***************************************************************************)
(* C17: after any calls of chat_with_portfolio, returning or raising, and  *)
(* of clear_chat_history, the roles in the engine's chat_history alternate *)
(* from a user entry on and every user entry has the assistant entry       *)
(* answering it: a call that raised left chat_history as it was.           *)
(***************************************************************************)
C17_HistoryAlternates ==
    /\ Alternates(chat_history)
    /\ Len(chat_history) % 2 = 0

\* the summaries a state of the session holds
SessionSummaries(state) ==
    <<state.portfolio_summary, state.holdings_data, state.performance_data, state.risk_data>>

\* generated by the latest run of trigger_ai_analysis from the summaries of the state
Current(generated, state) ==
    /\ generated.run = "latest"
    /\ generated.summaries = SessionSummaries(state)

(***************************************************************************)
(* C14: after every run of the script, ai_analysis_done true means that    *)
(* ai_analysis and ai_recommendations were both generated by the latest    *)
(* run of trigger_ai_analysis, from the summaries session state holds; a   *)
(* run whose load returned or that Generate AI Analysis started, or that   *)
(* turned the flag to true, ends with the flag true only when              *)
(* analyze_portfolio and generate_recommendations both returned, in that   *)
(* order, after the load.                                                  *)
(***************************************************************************)
C14_DoneMeansCurrent ==
    [][(ret'.op = "main" /\ session'.ai_analysis_done) =>
         /\ Current(provenance'.ai_analysis, session')
         /\ Current(provenance'.ai_recommendations, session')
         /\ (\/ ~Get(session, "ai_analysis_done", FALSE)
             \/ ret'.click = "generate"
             \/ /\ \E i \in 1..Len(ret'.calls) : ret'.calls[i] = "load"
                /\ LoadRaises(uploaded_file'.sheets) = "None")
            => LET n == Len(ret'.calls)
               IN /\ n >= 2
                  /\ ret'.calls[n - 1] = "analyze"
                  /\ ret'.calls[n] = "recommend"]_vars

\* a second file was loaded and analysed after the analysis of the first was done
C14_Witness ==
    /\ ret.op = "main"
    /\ session.ai_analysis_done
    /\ \E i \in 1..Len(ret.calls) : ret.calls[i] = "load"
    /\ Len(embeddings) >= 2
    /\ embeddings[1] # embeddings[2]

(***************************************************************************)
(* C15: whenever the dashboard is rendered, an analysis and                *)
(* recommendations that the AI Recommendations tab displays were generated *)
(* from the summaries of the portfolio data that is loaded.                *)
(***************************************************************************)
C15_NothingStaleShown ==
    Get(session, "data_loaded", FALSE) =>
        /\ DOMAIN session.ai_analysis # {} =>
               provenance.ai_analysis.summaries = SessionSummaries(session)
        /\ Len(session.ai_recommendations) > 0 =>
               provenance.ai_recommendations.summaries = SessionSummaries(session)

\* what Clear Chat History is to leave alone in session state
KeptByClear ==
    {"data_loaded", "raw_data", "portfolio_summary", "holdings_data", "performance_data",
     "risk_data", "ai_analysis", "ai_recommendations", "ai_analysis_done",
     "last_processed_file", "ai_engine", "data_processor"}

(***************************************************************************)
(* C13: the run started by Clear Chat History, with the rerun it ends in,  *)
(* leaves session chat_messages and the engine's chat_history empty, which *)
(* is what get_chat_history then returns, and leaves the vector store, the *)
(* processor's data, the loaded summaries, the analysis and the            *)
(* recommendations as they were.                                           *)
(***************************************************************************)
C13_ClearChatHistory ==
    [][ret'.click = "clear" =>
         /\ session'.chat_messages = <<>>
         /\ chat_history' = <<>>
         /\ UNCHANGED <<storeVars, data, processed_data, api_key, client, provenance>>
         /\ \A key \in KeptByClear :
                /\ key \in DOMAIN session' <=> key \in DOMAIN session
                /\ key \in DOMAIN session => session'[key] = session[key]]_vars

\* the history was cleared on a session with vectors, an analysis and
\* recommendations, while the uploader held a file whose load raises
C13_Witness ==
    /\ ret.op = "main"
    /\ ret.click = "clear"
    /\ ret.calls = <<"load", "clear", "load">>
    /\ session.chat_messages = <<>>
    /\ chat_history = <<>>
    /\ Len(embeddings) > 0
    /\ DOMAIN session.ai_analysis # {}
    /\ Len(session.ai_recommendations) > 0

(***************************************************************************)
(* C18: session chat_messages alternates user and assistant entries from a *)
(* user entry on and ends with an assistant entry: every question typed    *)
(* or suggested has one assistant entry behind it, a response of the model *)
(* or an error text.                                                       *)
(***************************************************************************)
C18_TranscriptAlternates ==
    LET messages == Get(session, "chat_messages", <<>>)
    IN /\ Alternates(messages)
       /\ Len(messages) % 2 = 0
       /\ \A i \in 1..Len(messages) :
             IF i % 2 = 1
             THEN messages[i].content \in TypedPrompts \cup Suggestions
             ELSE messages[i].content \in
                     {"response", "enhanced", FallbackResponse, InputError, SuggestionError}

\* two questions, one whose request raised and one answered by the fallback text
\* whose direct request raised
C18_Witness ==
    /\ "chat_messages" \in DOMAIN session
    /\ Len(session.chat_messages) = 4
    /\ \E i, j \in {2, 4} :
          /\ session.chat_messages[i].content \in {InputError, SuggestionError}
          /\ session.chat_messages[j].content = FallbackResponse
    /\ \E i \in {1, 3} : session.chat_messages[i].content \in Suggestions

====
